---- MODULE Spec2Model ----
(***************************************************************************)
(* A model of the surgical-simulation backend: the scenario generator      *)
(* (backend/simulation_generator.py), the assessment engine                *)
(* (backend/assessment_engine.py) and the storage                          *)
(* (backend/database_manager.py).                                          *)
(*                                                                         *)
(* Python dictionaries are functions whose DOMAIN is the set of keys that  *)
(* are present.  Step dictionaries live in a heap, so that two names for   *)
(* the same dictionary see each other's writes.  An operation that can     *)
(* raise returns a record whose field "raised" names the exception         *)
(* ("none" when it returns normally).                                      *)
(***************************************************************************)
EXTENDS Integers, Sequences, FiniteSets, TLC

VARIABLES
    heap,                 \* step dictionaries by object reference
    procedure_templates,  \* SimulationGenerator.procedure_templates
    scenario,             \* the scenario the caller holds, or None
    result,               \* outcome of the last call
    db                    \* the tables of the database file

vars == <<heap, procedure_templates, scenario, result, db>>

-----------------------------------------------------------------------------
(* Python values and dictionaries *)

None == [none |-> TRUE]

Has(d, k) == k \in DOMAIN d

Get(d, k, default) == IF k \in DOMAIN d THEN d[k] ELSE default

SetItem(d, k, v) == [x \in DOMAIN d \cup {k} |-> IF x = k THEN v ELSE d[x]]

\* seq[i] with Python's 0-based index: a negative i counts from the end,
\* an index outside -len..len-1 raises IndexError.
PyIndexInRange(seq, i) == -Len(seq) <= i /\ i < Len(seq)

PyIndex(seq, i) == IF i >= 0 THEN seq[i + 1] ELSE seq[Len(seq) + i + 1]

Range(f) == {f[x] : x \in DOMAIN f}

-----------------------------------------------------------------------------
(* Strings *)

(* str.lower() on the string literals the model uses. *)
lower ==
    "" :> ""
    @@ "skill" :> "skill"
    @@ "Trocar" :> "trocar"
    @@ "Closure" :> "closure"
    @@ "decision" :> "decision"
    @@ "suturing" :> "suturing"
    @@ "Hemostasis" :> "hemostasis"
    @@ "communication" :> "communication"
    @@ "monitors_vitals" :> "monitors_vitals"
    @@ "tissue_handling" :> "tissue_handling"
    @@ "Knee Arthroscopy" :> "knee arthroscopy"
    @@ "Portal Placement" :> "portal placement"
    @@ "Specimen Removal" :> "specimen removal"
    @@ "Trocar Placement" :> "trocar placement"
    @@ "Trocar_Placement" :> "trocar_placement"
    @@ "Closure and Post-op" :> "closure and post-op"
    @@ "Meniscal Assessment" :> "meniscal assessment"
    @@ "Patient Positioning" :> "patient positioning"
    @@ "Patient Preparation" :> "patient preparation"
    @@ "Appendix Transection" :> "appendix transection"
    @@ "Cartilage Evaluation" :> "cartilage evaluation"
    @@ "Mesoappendix Division" :> "mesoappendix division"
    @@ "Diagnostic Arthroscopy" :> "diagnostic arthroscopy"
    @@ "Diagnostic Laparoscopy" :> "diagnostic laparoscopy"
    @@ "Gallbladder Dissection" :> "gallbladder dissection"
    @@ "Appendix Identification" :> "appendix identification"
    @@ "Critical View of Safety" :> "critical view of safety"
    @@ "Laparoscopic Appendectomy" :> "laparoscopic appendectomy"
    @@ "Laparoscopic Cholecystectomy" :> "laparoscopic cholecystectomy"
    @@ "Locate and mobilize the appendix" :> "locate and mobilize the appendix"
    @@ "Close portals and apply dressings" :> "close portals and apply dressings"
    @@ "Dissect gallbladder from liver bed" :> "dissect gallbladder from liver bed"
    @@ "Outstanding technique demonstrated" :> "outstanding technique demonstrated"
    @@ "Assess articular cartilage surfaces" :> "assess articular cartilage surfaces"
    @@ "Close incisions and apply dressings" :> "close incisions and apply dressings"
    @@ "Perfect execution of critical steps" :> "perfect execution of critical steps"
    @@ "Appropriate response to complications" :> "appropriate response to complications"
    @@ "Safety concerns with current approach" :> "safety concerns with current approach"
    @@ "Transect appendix and remove specimen" :> "transect appendix and remove specimen"
    @@ "Remove gallbladder and close incisions" :> "remove gallbladder and close incisions"
    @@ "Significant technical errors identified" :> "significant technical errors identified"
    @@ "Technique needs refinement in key areas" :> "technique needs refinement in key areas"
    @@ "Excellent decision-making under pressure" :> "excellent decision-making under pressure"
    @@ "Requires substantial additional training" :> "requires substantial additional training"
    @@ "Review anatomical landmarks and approach" :> "review anatomical landmarks and approach"
    @@ "Evaluate meniscal integrity and pathology" :> "evaluate meniscal integrity and pathology"
    @@ "Create pneumoperitoneum and insert trocars" :> "create pneumoperitoneum and insert trocars"
    @@ "Divide mesoappendix and appendiceal artery" :> "divide mesoappendix and appendiceal artery"
    @@ "Systematic examination of knee compartments" :> "systematic examination of knee compartments"
    @@ "Create anterolateral and anteromedial portals" :> "create anterolateral and anteromedial portals"
    @@ "Inspect abdominal cavity and identify anatomy" :> "inspect abdominal cavity and identify anatomy"
    @@ "Solid understanding of procedure demonstrated" :> "solid understanding of procedure demonstrated"
    @@ "Consider additional practice on critical steps" :> "consider additional practice on critical steps"
    @@ "Good technique with minor areas for improvement" :> "good technique with minor areas for improvement"
    @@ "Position patient and establish pneumoperitoneum" :> "position patient and establish pneumoperitoneum"
    @@ "Achieve critical view of safety before dissection" :> "achieve critical view of safety before dissection"
    @@ "Position patient supine, prep and drape surgical site" :> "position patient supine, prep and drape surgical site"
    @@ "Position patient supine with knee flexed at 90 degrees" :> "position patient supine with knee flexed at 90 degrees"

(* The characters of a string: TLA+ strings are atomic, so the substring *)
(* tests and replacements of the code work on these sequences.          *)
Chars ==
    "" :> <<>>
    @@ "clip" :> <<"c", "l", "i", "p">>
    @@ "skill" :> <<"s", "k", "i", "l", "l">>
    @@ "camera" :> <<"c", "a", "m", "e", "r", "a">>
    @@ "divide" :> <<"d", "i", "v", "i", "d", "e">>
    @@ "safety" :> <<"s", "a", "f", "e", "t", "y">>
    @@ "trocar" :> <<"t", "r", "o", "c", "a", "r">>
    @@ "cautery" :> <<"c", "a", "u", "t", "e", "r", "y">>
    @@ "closure" :> <<"c", "l", "o", "s", "u", "r", "e">>
    @@ "dissect" :> <<"d", "i", "s", "s", "e", "c", "t">>
    @@ "bleeding" :> <<"b", "l", "e", "e", "d", "i", "n", "g">>
    @@ "decision" :> <<"d", "e", "c", "i", "s", "i", "o", "n">>
    @@ "grasping" :> <<"g", "r", "a", "s", "p", "i", "n", "g">>
    @@ "separate" :> <<"s", "e", "p", "a", "r", "a", "t", "e">>
    @@ "suturing" :> <<"s", "u", "t", "u", "r", "i", "n", "g">>
    @@ "triangle" :> <<"t", "r", "i", "a", "n", "g", "l", "e">>
    @@ "insertion" :> <<"i", "n", "s", "e", "r", "t", "i", "o", "n">>
    @@ "dissection" :> <<"d", "i", "s", "s", "e", "c", "t", "i", "o", "n">>
    @@ "hemostasis" :> <<"h", "e", "m", "o", "s", "t", "a", "s", "i", "s">>
    @@ "laparoscopy" :> <<"l", "a", "p", "a", "r", "o", "s", "c", "o", "p", "y">>
    @@ "appendectomy" :> <<"a", "p", "p", "e", "n", "d", "e", "c", "t", "o", "m", "y">>
    @@ "complication" :> <<"c", "o", "m", "p", "l", "i", "c", "a", "t", "i", "o", "n">>
    @@ "manipulation" :> <<"m", "a", "n", "i", "p", "u", "l", "a", "t", "i", "o", "n">>
    @@ "base_division" :> <<"b", "a", "s", "e", "_", "d", "i", "v", "i", "s", "i", "o", "n">>
    @@ "communication" :> <<"c", "o", "m", "m", "u", "n", "i", "c", "a", "t", "i", "o", "n">>
    @@ "critical view" :> <<"c", "r", "i", "t", "i", "c", "a", "l", " ", "v", "i", "e", "w">>
    @@ "visualization" :> <<"v", "i", "s", "u", "a", "l", "i", "z", "a", "t", "i", "o", "n">>
    @@ "monitors_vitals" :> <<"m", "o", "n", "i", "t", "o", "r", "s", "_", "v", "i", "t", "a", "l", "s">>
    @@ "tissue_handling" :> <<"t", "i", "s", "s", "u", "e", "_", "h", "a", "n", "d", "l", "i", "n", "g">>
    @@ "checks_equipment" :> <<"c", "h", "e", "c", "k", "s", "_", "e", "q", "u", "i", "p", "m", "e", "n", "t">>
    @@ "knee arthroscopy" :> <<"k", "n", "e", "e", " ", "a", "r", "t", "h", "r", "o", "s", "c", "o", "p", "y">>
    @@ "pneumoperitoneum" :> <<"p", "n", "e", "u", "m", "o", "p", "e", "r", "i", "t", "o", "n", "e", "u", "m">>
    @@ "portal placement" :> <<"p", "o", "r", "t", "a", "l", " ", "p", "l", "a", "c", "e", "m", "e", "n", "t">>
    @@ "specimen removal" :> <<"s", "p", "e", "c", "i", "m", "e", "n", " ", "r", "e", "m", "o", "v", "a", "l">>
    @@ "specimen_removal" :> <<"s", "p", "e", "c", "i", "m", "e", "n", "_", "r", "e", "m", "o", "v", "a", "l">>
    @@ "trocar placement" :> <<"t", "r", "o", "c", "a", "r", " ", "p", "l", "a", "c", "e", "m", "e", "n", "t">>
    @@ "trocar_placement" :> <<"t", "r", "o", "c", "a", "r", "_", "p", "l", "a", "c", "e", "m", "e", "n", "t">>
    @@ "camera_navigation" :> <<"c", "a", "m", "e", "r", "a", "_", "n", "a", "v", "i", "g", "a", "t", "i", "o", "n">>
    @@ "closure and post-op" :> <<"c", "l", "o", "s", "u", "r", "e", " ", "a", "n", "d", " ", "p", "o", "s", "t", "-", "o", "p">>
    @@ "communicates_status" :> <<"c", "o", "m", "m", "u", "n", "i", "c", "a", "t", "e", "s", "_", "s", "t", "a", "t", "u", "s">>
    @@ "meniscal assessment" :> <<"m", "e", "n", "i", "s", "c", "a", "l", " ", "a", "s", "s", "e", "s", "s", "m", "e", "n", "t">>
    @@ "patient positioning" :> <<"p", "a", "t", "i", "e", "n", "t", " ", "p", "o", "s", "i", "t", "i", "o", "n", "i", "n", "g">>
    @@ "patient preparation" :> <<"p", "a", "t", "i", "e", "n", "t", " ", "p", "r", "e", "p", "a", "r", "a", "t", "i", "o", "n">>
    @@ "requests_assistance" :> <<"r", "e", "q", "u", "e", "s", "t", "s", "_", "a", "s", "s", "i", "s", "t", "a", "n", "c", "e">>
    @@ "appendix transection" :> <<"a", "p", "p", "e", "n", "d", "i", "x", " ", "t", "r", "a", "n", "s", "e", "c", "t", "i", "o", "n">>
    @@ "cartilage evaluation" :> <<"c", "a", "r", "t", "i", "l", "a", "g", "e", " ", "e", "v", "a", "l", "u", "a", "t", "i", "o", "n">>
    @@ "dissection_technique" :> <<"d", "i", "s", "s", "e", "c", "t", "i", "o", "n", "_", "t", "e", "c", "h", "n", "i", "q", "u", "e">>
    @@ "mesoappendix division" :> <<"m", "e", "s", "o", "a", "p", "p", "e", "n", "d", "i", "x", " ", "d", "i", "v", "i", "s", "i", "o", "n">>
    @@ "mesoappendix_division" :> <<"m", "e", "s", "o", "a", "p", "p", "e", "n", "d", "i", "x", "_", "d", "i", "v", "i", "s", "i", "o", "n">>
    @@ "diagnostic arthroscopy" :> <<"d", "i", "a", "g", "n", "o", "s", "t", "i", "c", " ", "a", "r", "t", "h", "r", "o", "s", "c", "o", "p", "y">>
    @@ "diagnostic laparoscopy" :> <<"d", "i", "a", "g", "n", "o", "s", "t", "i", "c", " ", "l", "a", "p", "a", "r", "o", "s", "c", "o", "p", "y">>
    @@ "gallbladder dissection" :> <<"g", "a", "l", "l", "b", "l", "a", "d", "d", "e", "r", " ", "d", "i", "s", "s", "e", "c", "t", "i", "o", "n">>
    @@ "appendix identification" :> <<"a", "p", "p", "e", "n", "d", "i", "x", " ", "i", "d", "e", "n", "t", "i", "f", "i", "c", "a", "t", "i", "o", "n">>
    @@ "appendix_identification" :> <<"a", "p", "p", "e", "n", "d", "i", "x", "_", "i", "d", "e", "n", "t", "i", "f", "i", "c", "a", "t", "i", "o", "n">>
    @@ "critical view of safety" :> <<"c", "r", "i", "t", "i", "c", "a", "l", " ", "v", "i", "e", "w", " ", "o", "f", " ", "s", "a", "f", "e", "t", "y">>
    @@ "identifies_complications" :> <<"i", "d", "e", "n", "t", "i", "f", "i", "e", "s", "_", "c", "o", "m", "p", "l", "i", "c", "a", "t", "i", "o", "n", "s">>
    @@ "critical_view_achievement" :> <<"c", "r", "i", "t", "i", "c", "a", "l", "_", "v", "i", "e", "w", "_", "a", "c", "h", "i", "e", "v", "e", "m", "e", "n", "t">>
    @@ "laparoscopic appendectomy" :> <<"l", "a", "p", "a", "r", "o", "s", "c", "o", "p", "i", "c", " ", "a", "p", "p", "e", "n", "d", "e", "c", "t", "o", "m", "y">>
    @@ "laparoscopic cholecystectomy" :> <<"l", "a", "p", "a", "r", "o", "s", "c", "o", "p", "i", "c", " ", "c", "h", "o", "l", "e", "c", "y", "s", "t", "e", "c", "t", "o", "m", "y">>
    @@ "laparoscopic_cholecystectomy" :> <<"l", "a", "p", "a", "r", "o", "s", "c", "o", "p", "i", "c", "_", "c", "h", "o", "l", "e", "c", "y", "s", "t", "e", "c", "t", "o", "m", "y">>
    @@ "locate and mobilize the appendix" :> <<"l", "o", "c", "a", "t", "e", " ", "a", "n", "d", " ", "m", "o", "b", "i", "l", "i", "z", "e", " ", "t", "h", "e", " ", "a", "p", "p", "e", "n", "d", "i", "x">>
    @@ "close portals and apply dressings" :> <<"c", "l", "o", "s", "e", " ", "p", "o", "r", "t", "a", "l", "s", " ", "a", "n", "d", " ", "a", "p", "p", "l", "y", " ", "d", "r", "e", "s", "s", "i", "n", "g", "s">>
    @@ "Outstanding technique demonstrated" :> <<"O", "u", "t", "s", "t", "a", "n", "d", "i", "n", "g", " ", "t", "e", "c", "h", "n", "i", "q", "u", "e", " ", "d", "e", "m", "o", "n", "s", "t", "r", "a", "t", "e", "d">>
    @@ "dissect gallbladder from liver bed" :> <<"d", "i", "s", "s", "e", "c", "t", " ", "g", "a", "l", "l", "b", "l", "a", "d", "d", "e", "r", " ", "f", "r", "o", "m", " ", "l", "i", "v", "e", "r", " ", "b", "e", "d">>
    @@ "outstanding technique demonstrated" :> <<"o", "u", "t", "s", "t", "a", "n", "d", "i", "n", "g", " ", "t", "e", "c", "h", "n", "i", "q", "u", "e", " ", "d", "e", "m", "o", "n", "s", "t", "r", "a", "t", "e", "d">>
    @@ "Perfect execution of critical steps" :> <<"P", "e", "r", "f", "e", "c", "t", " ", "e", "x", "e", "c", "u", "t", "i", "o", "n", " ", "o", "f", " ", "c", "r", "i", "t", "i", "c", "a", "l", " ", "s", "t", "e", "p", "s">>
    @@ "assess articular cartilage surfaces" :> <<"a", "s", "s", "e", "s", "s", " ", "a", "r", "t", "i", "c", "u", "l", "a", "r", " ", "c", "a", "r", "t", "i", "l", "a", "g", "e", " ", "s", "u", "r", "f", "a", "c", "e", "s">>
    @@ "close incisions and apply dressings" :> <<"c", "l", "o", "s", "e", " ", "i", "n", "c", "i", "s", "i", "o", "n", "s", " ", "a", "n", "d", " ", "a", "p", "p", "l", "y", " ", "d", "r", "e", "s", "s", "i", "n", "g", "s">>
    @@ "perfect execution of critical steps" :> <<"p", "e", "r", "f", "e", "c", "t", " ", "e", "x", "e", "c", "u", "t", "i", "o", "n", " ", "o", "f", " ", "c", "r", "i", "t", "i", "c", "a", "l", " ", "s", "t", "e", "p", "s">>
    @@ "Appropriate response to complications" :> <<"A", "p", "p", "r", "o", "p", "r", "i", "a", "t", "e", " ", "r", "e", "s", "p", "o", "n", "s", "e", " ", "t", "o", " ", "c", "o", "m", "p", "l", "i", "c", "a", "t", "i", "o", "n", "s">>
    @@ "Safety concerns with current approach" :> <<"S", "a", "f", "e", "t", "y", " ", "c", "o", "n", "c", "e", "r", "n", "s", " ", "w", "i", "t", "h", " ", "c", "u", "r", "r", "e", "n", "t", " ", "a", "p", "p", "r", "o", "a", "c", "h">>
    @@ "appropriate response to complications" :> <<"a", "p", "p", "r", "o", "p", "r", "i", "a", "t", "e", " ", "r", "e", "s", "p", "o", "n", "s", "e", " ", "t", "o", " ", "c", "o", "m", "p", "l", "i", "c", "a", "t", "i", "o", "n", "s">>
    @@ "safety concerns with current approach" :> <<"s", "a", "f", "e", "t", "y", " ", "c", "o", "n", "c", "e", "r", "n", "s", " ", "w", "i", "t", "h", " ", "c", "u", "r", "r", "e", "n", "t", " ", "a", "p", "p", "r", "o", "a", "c", "h">>
    @@ "transect appendix and remove specimen" :> <<"t", "r", "a", "n", "s", "e", "c", "t", " ", "a", "p", "p", "e", "n", "d", "i", "x", " ", "a", "n", "d", " ", "r", "e", "m", "o", "v", "e", " ", "s", "p", "e", "c", "i", "m", "e", "n">>
    @@ "remove gallbladder and close incisions" :> <<"r", "e", "m", "o", "v", "e", " ", "g", "a", "l", "l", "b", "l", "a", "d", "d", "e", "r", " ", "a", "n", "d", " ", "c", "l", "o", "s", "e", " ", "i", "n", "c", "i", "s", "i", "o", "n", "s">>
    @@ "Significant technical errors identified" :> <<"S", "i", "g", "n", "i", "f", "i", "c", "a", "n", "t", " ", "t", "e", "c", "h", "n", "i", "c", "a", "l", " ", "e", "r", "r", "o", "r", "s", " ", "i", "d", "e", "n", "t", "i", "f", "i", "e", "d">>
    @@ "Technique needs refinement in key areas" :> <<"T", "e", "c", "h", "n", "i", "q", "u", "e", " ", "n", "e", "e", "d", "s", " ", "r", "e", "f", "i", "n", "e", "m", "e", "n", "t", " ", "i", "n", " ", "k", "e", "y", " ", "a", "r", "e", "a", "s">>
    @@ "significant technical errors identified" :> <<"s", "i", "g", "n", "i", "f", "i", "c", "a", "n", "t", " ", "t", "e", "c", "h", "n", "i", "c", "a", "l", " ", "e", "r", "r", "o", "r", "s", " ", "i", "d", "e", "n", "t", "i", "f", "i", "e", "d">>
    @@ "technique needs refinement in key areas" :> <<"t", "e", "c", "h", "n", "i", "q", "u", "e", " ", "n", "e", "e", "d", "s", " ", "r", "e", "f", "i", "n", "e", "m", "e", "n", "t", " ", "i", "n", " ", "k", "e", "y", " ", "a", "r", "e", "a", "s">>
    @@ "Excellent decision-making under pressure" :> <<"E", "x", "c", "e", "l", "l", "e", "n", "t", " ", "d", "e", "c", "i", "s", "i", "o", "n", "-", "m", "a", "k", "i", "n", "g", " ", "u", "n", "d", "e", "r", " ", "p", "r", "e", "s", "s", "u", "r", "e">>
    @@ "Requires substantial additional training" :> <<"R", "e", "q", "u", "i", "r", "e", "s", " ", "s", "u", "b", "s", "t", "a", "n", "t", "i", "a", "l", " ", "a", "d", "d", "i", "t", "i", "o", "n", "a", "l", " ", "t", "r", "a", "i", "n", "i", "n", "g">>
    @@ "Review anatomical landmarks and approach" :> <<"R", "e", "v", "i", "e", "w", " ", "a", "n", "a", "t", "o", "m", "i", "c", "a", "l", " ", "l", "a", "n", "d", "m", "a", "r", "k", "s", " ", "a", "n", "d", " ", "a", "p", "p", "r", "o", "a", "c", "h">>
    @@ "excellent decision-making under pressure" :> <<"e", "x", "c", "e", "l", "l", "e", "n", "t", " ", "d", "e", "c", "i", "s", "i", "o", "n", "-", "m", "a", "k", "i", "n", "g", " ", "u", "n", "d", "e", "r", " ", "p", "r", "e", "s", "s", "u", "r", "e">>
    @@ "requires substantial additional training" :> <<"r", "e", "q", "u", "i", "r", "e", "s", " ", "s", "u", "b", "s", "t", "a", "n", "t", "i", "a", "l", " ", "a", "d", "d", "i", "t", "i", "o", "n", "a", "l", " ", "t", "r", "a", "i", "n", "i", "n", "g">>
    @@ "review anatomical landmarks and approach" :> <<"r", "e", "v", "i", "e", "w", " ", "a", "n", "a", "t", "o", "m", "i", "c", "a", "l", " ", "l", "a", "n", "d", "m", "a", "r", "k", "s", " ", "a", "n", "d", " ", "a", "p", "p", "r", "o", "a", "c", "h">>
    @@ "evaluate meniscal integrity and pathology" :> <<"e", "v", "a", "l", "u", "a", "t", "e", " ", "m", "e", "n", "i", "s", "c", "a", "l", " ", "i", "n", "t", "e", "g", "r", "i", "t", "y", " ", "a", "n", "d", " ", "p", "a", "t", "h", "o", "l", "o", "g", "y">>
    @@ "create pneumoperitoneum and insert trocars" :> <<"c", "r", "e", "a", "t", "e", " ", "p", "n", "e", "u", "m", "o", "p", "e", "r", "i", "t", "o", "n", "e", "u", "m", " ", "a", "n", "d", " ", "i", "n", "s", "e", "r", "t", " ", "t", "r", "o", "c", "a", "r", "s">>
    @@ "divide mesoappendix and appendiceal artery" :> <<"d", "i", "v", "i", "d", "e", " ", "m", "e", "s", "o", "a", "p", "p", "e", "n", "d", "i", "x", " ", "a", "n", "d", " ", "a", "p", "p", "e", "n", "d", "i", "c", "e", "a", "l", " ", "a", "r", "t", "e", "r", "y">>
    @@ "systematic examination of knee compartments" :> <<"s", "y", "s", "t", "e", "m", "a", "t", "i", "c", " ", "e", "x", "a", "m", "i", "n", "a", "t", "i", "o", "n", " ", "o", "f", " ", "k", "n", "e", "e", " ", "c", "o", "m", "p", "a", "r", "t", "m", "e", "n", "t", "s">>
    @@ "Solid understanding of procedure demonstrated" :> <<"S", "o", "l", "i", "d", " ", "u", "n", "d", "e", "r", "s", "t", "a", "n", "d", "i", "n", "g", " ", "o", "f", " ", "p", "r", "o", "c", "e", "d", "u", "r", "e", " ", "d", "e", "m", "o", "n", "s", "t", "r", "a", "t", "e", "d">>
    @@ "create anterolateral and anteromedial portals" :> <<"c", "r", "e", "a", "t", "e", " ", "a", "n", "t", "e", "r", "o", "l", "a", "t", "e", "r", "a", "l", " ", "a", "n", "d", " ", "a", "n", "t", "e", "r", "o", "m", "e", "d", "i", "a", "l", " ", "p", "o", "r", "t", "a", "l", "s">>
    @@ "inspect abdominal cavity and identify anatomy" :> <<"i", "n", "s", "p", "e", "c", "t", " ", "a", "b", "d", "o", "m", "i", "n", "a", "l", " ", "c", "a", "v", "i", "t", "y", " ", "a", "n", "d", " ", "i", "d", "e", "n", "t", "i", "f", "y", " ", "a", "n", "a", "t", "o", "m", "y">>
    @@ "solid understanding of procedure demonstrated" :> <<"s", "o", "l", "i", "d", " ", "u", "n", "d", "e", "r", "s", "t", "a", "n", "d", "i", "n", "g", " ", "o", "f", " ", "p", "r", "o", "c", "e", "d", "u", "r", "e", " ", "d", "e", "m", "o", "n", "s", "t", "r", "a", "t", "e", "d">>
    @@ "Consider additional practice on critical steps" :> <<"C", "o", "n", "s", "i", "d", "e", "r", " ", "a", "d", "d", "i", "t", "i", "o", "n", "a", "l", " ", "p", "r", "a", "c", "t", "i", "c", "e", " ", "o", "n", " ", "c", "r", "i", "t", "i", "c", "a", "l", " ", "s", "t", "e", "p", "s">>
    @@ "consider additional practice on critical steps" :> <<"c", "o", "n", "s", "i", "d", "e", "r", " ", "a", "d", "d", "i", "t", "i", "o", "n", "a", "l", " ", "p", "r", "a", "c", "t", "i", "c", "e", " ", "o", "n", " ", "c", "r", "i", "t", "i", "c", "a", "l", " ", "s", "t", "e", "p", "s">>
    @@ "Good technique with minor areas for improvement" :> <<"G", "o", "o", "d", " ", "t", "e", "c", "h", "n", "i", "q", "u", "e", " ", "w", "i", "t", "h", " ", "m", "i", "n", "o", "r", " ", "a", "r", "e", "a", "s", " ", "f", "o", "r", " ", "i", "m", "p", "r", "o", "v", "e", "m", "e", "n", "t">>
    @@ "good technique with minor areas for improvement" :> <<"g", "o", "o", "d", " ", "t", "e", "c", "h", "n", "i", "q", "u", "e", " ", "w", "i", "t", "h", " ", "m", "i", "n", "o", "r", " ", "a", "r", "e", "a", "s", " ", "f", "o", "r", " ", "i", "m", "p", "r", "o", "v", "e", "m", "e", "n", "t">>
    @@ "position patient and establish pneumoperitoneum" :> <<"p", "o", "s", "i", "t", "i", "o", "n", " ", "p", "a", "t", "i", "e", "n", "t", " ", "a", "n", "d", " ", "e", "s", "t", "a", "b", "l", "i", "s", "h", " ", "p", "n", "e", "u", "m", "o", "p", "e", "r", "i", "t", "o", "n", "e", "u", "m">>
    @@ "achieve critical view of safety before dissection" :> <<"a", "c", "h", "i", "e", "v", "e", " ", "c", "r", "i", "t", "i", "c", "a", "l", " ", "v", "i", "e", "w", " ", "o", "f", " ", "s", "a", "f", "e", "t", "y", " ", "b", "e", "f", "o", "r", "e", " ", "d", "i", "s", "s", "e", "c", "t", "i", "o", "n">>
    @@ "position patient supine, prep and drape surgical site" :> <<"p", "o", "s", "i", "t", "i", "o", "n", " ", "p", "a", "t", "i", "e", "n", "t", " ", "s", "u", "p", "i", "n", "e", ",", " ", "p", "r", "e", "p", " ", "a", "n", "d", " ", "d", "r", "a", "p", "e", " ", "s", "u", "r", "g", "i", "c", "a", "l", " ", "s", "i", "t", "e">>
    @@ "position patient supine with knee flexed at 90 degrees" :> <<"p", "o", "s", "i", "t", "i", "o", "n", " ", "p", "a", "t", "i", "e", "n", "t", " ", "s", "u", "p", "i", "n", "e", " ", "w", "i", "t", "h", " ", "k", "n", "e", "e", " ", "f", "l", "e", "x", "e", "d", " ", "a", "t", " ", "9", "0", " ", "d", "e", "g", "r", "e", "e", "s">>

\* needle in haystack, on character sequences
IsSubstring(needle, haystack) ==
    \E i \in 0..(Len(haystack) - Len(needle)) :
        SubSeq(haystack, i + 1, i + Len(needle)) = needle

\* s.replace(old, new) for a one-character old
RECURSIVE ReplaceChar(_, _, _)
ReplaceChar(s, old, new) ==
    IF s = <<>> THEN <<>>
    ELSE (IF Head(s) = old THEN new ELSE <<Head(s)>>) \o ReplaceChar(Tail(s), old, new)

\* s.replace(old, "") : every occurrence of old is removed, left to right
RECURSIVE RemoveAll(_, _)
RemoveAll(s, old) ==
    IF Len(s) < Len(old) THEN s
    ELSE IF SubSeq(s, 1, Len(old)) = old
         THEN RemoveAll(SubSeq(s, Len(old) + 1, Len(s)), old)
         ELSE <<Head(s)>> \o RemoveAll(Tail(s), old)

\* s.split(sep) for a one-character sep
RECURSIVE SplitFrom(_, _, _)
SplitFrom(s, sep, cur) ==
    IF s = <<>> THEN <<cur>>
    ELSE IF Head(s) = sep THEN <<cur>> \o SplitFrom(Tail(s), sep, <<>>)
         ELSE SplitFrom(Tail(s), sep, Append(cur, Head(s)))

Split(s, sep) == SplitFrom(s, sep, <<>>)

DigitChars == <<"0", "1", "2", "3", "4", "5", "6", "7", "8", "9">>

DigitValue(c) == CHOOSE v \in 0..9 : DigitChars[v + 1] = c

\* int(s) for a string of decimal digits
RECURSIVE int(_)
int(s) == IF s = <<>> THEN 0
          ELSE 10 * int(SubSeq(s, 1, Len(s) - 1)) + DigitValue(s[Len(s)])

\* str(n), n >= 0
RECURSIVE str(_)
str(n) == IF n < 10 THEN <<DigitChars[n + 1]>>
          ELSE str(n \div 10) \o <<DigitChars[(n % 10) + 1]>>

MinutesSuffix == <<" ", "m", "i", "n", "u", "t", "e", "s">>

\* objective.lower() in text.lower(), keyword in text.lower()
In(needle, text) == IsSubstring(Chars[needle], Chars[text])

-----------------------------------------------------------------------------
(* SimulationGenerator: the catalogs *)

(* The step dictionaries of the three built-in templates, one object per step. *)
(* A duration is kept as the characters of its string, "10-15 minutes".       *)
TemplateStepObjects ==
    1 :> [step_number |-> 1,
          title |-> "Patient Preparation",
          description |-> "Position patient supine, prep and drape surgical site",
          duration |-> <<"1", "0", "-", "1", "5", " ", "m", "i", "n", "u", "t", "e", "s">>,
          critical_points |-> <<"Proper patient positioning", "Sterile field maintenance", "Antibiotic prophylaxis">>,
          instruments |-> <<"surgical drapes", "prep solution", "positioning aids">>]
    @@
    2 :> [step_number |-> 2,
          title |-> "Trocar Placement",
          description |-> "Create pneumoperitoneum and insert trocars",
          duration |-> <<"1", "0", "-", "1", "5", " ", "m", "i", "n", "u", "t", "e", "s">>,
          critical_points |-> <<"Safe entry technique", "Proper CO2 insufflation", "Trocar positioning">>,
          instruments |-> <<"veress needle", "trocars", "CO2 insufflator">>]
    @@
    3 :> [step_number |-> 3,
          title |-> "Diagnostic Laparoscopy",
          description |-> "Inspect abdominal cavity and identify anatomy",
          duration |-> <<"5", "-", "1", "0", " ", "m", "i", "n", "u", "t", "e", "s">>,
          critical_points |-> <<"Systematic inspection", "Adhesion identification", "Anatomical orientation">>,
          instruments |-> <<"laparoscope", "graspers">>]
    @@
    4 :> [step_number |-> 4,
          title |-> "Critical View of Safety",
          description |-> "Achieve critical view of safety before dissection",
          duration |-> <<"1", "5", "-", "2", "0", " ", "m", "i", "n", "u", "t", "e", "s">>,
          critical_points |-> <<"Clear identification of Calot's triangle", "Only 2 structures entering gallbladder", "Clear view of liver bed">>,
          instruments |-> <<"graspers", "dissector", "clip applier">>]
    @@
    5 :> [step_number |-> 5,
          title |-> "Gallbladder Dissection",
          description |-> "Dissect gallbladder from liver bed",
          duration |-> <<"1", "5", "-", "2", "5", " ", "m", "i", "n", "u", "t", "e", "s">>,
          critical_points |-> <<"Maintain proper plane", "Hemostasis control", "Avoid perforation">>,
          instruments |-> <<"electrocautery", "graspers", "irrigation">>]
    @@
    6 :> [step_number |-> 6,
          title |-> "Specimen Removal",
          description |-> "Remove gallbladder and close incisions",
          duration |-> <<"1", "0", "-", "1", "5", " ", "m", "i", "n", "u", "t", "e", "s">>,
          critical_points |-> <<"Secure specimen in bag", "Inspect for bleeding", "Remove CO2">>,
          instruments |-> <<"specimen bag", "sutures", "local anesthetic">>]
    @@
    7 :> [step_number |-> 1,
          title |-> "Patient Preparation",
          description |-> "Position patient and establish pneumoperitoneum",
          duration |-> <<"1", "0", "-", "1", "5", " ", "m", "i", "n", "u", "t", "e", "s">>,
          critical_points |-> <<"Left lateral tilt positioning", "Safe trocar insertion", "Adequate visualization">>,
          instruments |-> <<"trocars", "CO2 insufflator", "laparoscope">>]
    @@
    8 :> [step_number |-> 2,
          title |-> "Appendix Identification",
          description |-> "Locate and mobilize the appendix",
          duration |-> <<"5", "-", "1", "0", " ", "m", "i", "n", "u", "t", "e", "s">>,
          critical_points |-> <<"Identify cecum and ileocecal valve", "Locate appendix base", "Assess inflammation extent">>,
          instruments |-> <<"graspers", "atraumatic forceps">>]
    @@
    9 :> [step_number |-> 3,
          title |-> "Mesoappendix Division",
          description |-> "Divide mesoappendix and appendiceal artery",
          duration |-> <<"1", "0", "-", "1", "5", " ", "m", "i", "n", "u", "t", "e", "s">>,
          critical_points |-> <<"Identify appendiceal artery", "Sequential clip application", "Avoid thermal injury">>,
          instruments |-> <<"clip applier", "electrocautery", "scissors">>]
    @@
    10 :> [step_number |-> 4,
          title |-> "Appendix Transection",
          description |-> "Transect appendix and remove specimen",
          duration |-> <<"5", "-", "1", "0", " ", "m", "i", "n", "u", "t", "e", "s">>,
          critical_points |-> <<"Secure base with clips", "Transect between clips", "Remove specimen safely">>,
          instruments |-> <<"clip applier", "scissors", "specimen bag">>]
    @@
    11 :> [step_number |-> 5,
          title |-> "Closure",
          description |-> "Close incisions and apply dressings",
          duration |-> <<"5", "-", "1", "0", " ", "m", "i", "n", "u", "t", "e", "s">>,
          critical_points |-> <<"Inspect for bleeding", "Close fascial defects", "Apply sterile dressings">>,
          instruments |-> <<"sutures", "dressings", "local anesthetic">>]
    @@
    12 :> [step_number |-> 1,
          title |-> "Patient Positioning",
          description |-> "Position patient supine with knee flexed at 90 degrees",
          duration |-> <<"1", "0", "-", "1", "5", " ", "m", "i", "n", "u", "t", "e", "s">>,
          critical_points |-> <<"Proper knee positioning", "Tourniquet application", "Sterile field preparation">>,
          instruments |-> <<"positioning aids", "tourniquet", "surgical drapes">>]
    @@
    13 :> [step_number |-> 2,
          title |-> "Portal Placement",
          description |-> "Create anterolateral and anteromedial portals",
          duration |-> <<"1", "0", "-", "1", "5", " ", "m", "i", "n", "u", "t", "e", "s">>,
          critical_points |-> <<"Proper portal positioning", "Avoid neurovascular structures", "Adequate portal spacing">>,
          instruments |-> <<"scalpel", "arthroscope", "cannulas">>]
    @@
    14 :> [step_number |-> 3,
          title |-> "Diagnostic Arthroscopy",
          description |-> "Systematic examination of knee compartments",
          duration |-> <<"1", "5", "-", "2", "0", " ", "m", "i", "n", "u", "t", "e", "s">>,
          critical_points |-> <<"Systematic compartment examination", "Documentation of findings", "Assessment of pathology">>,
          instruments |-> <<"arthroscope", "probe", "camera system">>]
    @@
    15 :> [step_number |-> 4,
          title |-> "Meniscal Assessment",
          description |-> "Evaluate meniscal integrity and pathology",
          duration |-> <<"2", "0", "-", "3", "0", " ", "m", "i", "n", "u", "t", "e", "s">>,
          critical_points |-> <<"Meniscal tear identification", "Stability assessment", "Treatment planning">>,
          instruments |-> <<"probe", "graspers", "meniscal instruments">>]
    @@
    16 :> [step_number |-> 5,
          title |-> "Cartilage Evaluation",
          description |-> "Assess articular cartilage surfaces",
          duration |-> <<"1", "5", "-", "2", "5", " ", "m", "i", "n", "u", "t", "e", "s">>,
          critical_points |-> <<"Cartilage defect mapping", "ICRS classification", "Treatment options">>,
          instruments |-> <<"probe", "measuring devices", "documentation tools">>]
    @@
    17 :> [step_number |-> 6,
          title |-> "Closure and Post-op",
          description |-> "Close portals and apply dressings",
          duration |-> <<"1", "0", "-", "1", "5", " ", "m", "i", "n", "u", "t", "e", "s">>,
          critical_points |-> <<"Portal closure", "Dressing application", "Post-operative instructions">>,
          instruments |-> <<"sutures", "dressings", "compression bandage">>]

_load_procedure_templates ==
    "laparoscopic_cholecystectomy" :> [name |-> "Laparoscopic Cholecystectomy", category |-> "General Surgery",
          base_duration |-> 60,
          steps |-> <<1, 2, 3, 4, 5, 6>>]
    @@
    "appendectomy" :> [name |-> "Laparoscopic Appendectomy", category |-> "General Surgery",
          base_duration |-> 45,
          steps |-> <<7, 8, 9, 10, 11>>]
    @@
    "knee_arthroscopy" :> [name |-> "Knee Arthroscopy", category |-> "Orthopedic",
          base_duration |-> 90,
          steps |-> <<12, 13, 14, 15, 16, 17>>]

TemplateRefs == DOMAIN TemplateStepObjects

_load_complications ==
    "bleeding" :> [severity |-> <<"mild", "moderate", "severe">>,
                   locations |-> <<"trocar site", "liver bed", "mesenteric vessel">>,
                   management |-> <<"pressure", "electrocautery", "clip application", "conversion">>]
    @@
    "bowel_injury" :> [severity |-> <<"serosal", "full_thickness">>,
                       locations |-> <<"small bowel", "colon">>,
                       management |-> <<"primary repair", "resection", "conversion">>]
    @@
    "equipment_failure" :> [type |-> <<"CO2 insufflator", "electrocautery", "camera">>,
                            management |-> <<"backup equipment", "troubleshooting", "conversion">>]

complication_library == _load_complications

-----------------------------------------------------------------------------
(* SimulationGenerator: durations *)

\* int(n * factor) for the float factors 1.5, 0.8 and 0.7, given in tenths.
\* The double product equals the exact one after truncation for every
\* n < 200 except 0.7 * 90, 0.7 * 170 and 0.7 * 180, which fall just below
\* 63, 119 and 126.
TruncFloatProduct(n, factor) ==
    IF factor = 7 /\ n \in {90, 170, 180}
    THEN (n * factor) \div 10 - 1
    ELSE (n * factor) \div 10

ScaleDuration(duration_str, factor) ==
    LET parts    == Split(RemoveAll(duration_str, MinutesSuffix), "-")
        min_time == TruncFloatProduct(int(parts[1]), factor)
        max_time == TruncFloatProduct(int(parts[2]), factor)
    IN  str(min_time) \o <<"-">> \o str(max_time) \o MinutesSuffix

_extend_duration(duration_str, factor) == ScaleDuration(duration_str, factor)

_reduce_duration(duration_str, factor) == ScaleDuration(duration_str, factor)

\* sum of the steps' midpoints, truncated; the midpoints are halves, so the
\* float sum is exact
RECURSIVE SumBounds(_, _)
SumBounds(h, refs) ==
    IF refs = <<>> THEN 0
    ELSE LET parts == Split(RemoveAll(h[Head(refs)].duration, MinutesSuffix), "-")
         IN  int(parts[1]) + int(parts[2]) + SumBounds(h, Tail(refs))

_calculate_duration(h, steps, difficulty) == SumBounds(h, steps) \div 2

-----------------------------------------------------------------------------
(* SimulationGenerator: customization *)

\* json.loads(json.dumps(base_steps)): new dictionaries with the values of
\* the old ones (strings, integers and lists of strings survive the round
\* trip unchanged), placed at the lowest references not in use.
FreshRefs(h, n) ==
    LET top == IF DOMAIN h = {} THEN 0
               ELSE CHOOSE m \in DOMAIN h : \A x \in DOMAIN h : x <= m
    IN  [i \in 1..n |-> top + i]

\* a copy that shares the template's dictionaries
ShallowCopy(h, base_steps) == [heap |-> h, steps |-> base_steps]

DeepCopy(h, base_steps) ==
    LET refs == FreshRefs(h, Len(base_steps))
    IN  [heap  |-> [r \in DOMAIN h \cup Range(refs) |->
                      IF r \in DOMAIN h THEN h[r]
                      ELSE h[base_steps[CHOOSE i \in DOMAIN refs : refs[i] = r]]],
         steps |-> refs]

_generate_beginner_hints(step) ==
    << <<"Take your time with ", lower[step.title]>>,
       <<"Ensure proper visualization before proceeding">>,
       <<"Communicate with your team throughout the step">> >>

_add_decision_points(step) ==
    << [scenario |-> "Unusual anatomy encountered",
        options |-> <<"Continue with caution", "Seek senior help", "Convert to open">>,
        correct_choice |-> "Seek senior help"] >>

\* a customization that does not look at the difficulty
CustomizeStepUniform(step, difficulty) ==
    [raised |-> "none", step |-> SetItem(step, "guidance_level", "moderate")]

\* The body of the loop for one step.  The class defines no method
\* _add_technique_variations: the advanced branch sets guidance_level and
\* then raises AttributeError on the attribute lookup.
CustomizeStep(step, difficulty) ==
    CASE difficulty = "beginner" ->
           [raised |-> "none",
            step |-> SetItem(SetItem(SetItem(step,
                        "guidance_level", "detailed"),
                        "hints", _generate_beginner_hints(step)),
                        "duration", _extend_duration(step.duration, 15))]
      [] difficulty = "intermediate" ->
           [raised |-> "none",
            step |-> SetItem(SetItem(step,
                        "guidance_level", "moderate"),
                        "decision_points", _add_decision_points(step))]
      [] difficulty = "advanced" ->
           [raised |-> "AttributeError",
            step |-> SetItem(step, "guidance_level", "minimal")]
      [] difficulty = "expert" ->
           [raised |-> "none",
            step |-> SetItem(SetItem(SetItem(step,
                        "guidance_level", "none"),
                        "time_pressure", TRUE),
                        "duration", _reduce_duration(step.duration, 7))]
      [] OTHER -> [raised |-> "none", step |-> step]

RECURSIVE CustomizeFrom(_, _, _, _)
CustomizeFrom(h, steps, i, difficulty) ==
    IF i > Len(steps) THEN [raised |-> "none", heap |-> h]
    ELSE LET r  == CustomizeStep(h[steps[i]], difficulty)
             h2 == [h EXCEPT ![steps[i]] = r.step]
         IN  IF r.raised # "none" THEN [raised |-> r.raised, heap |-> h2]
             ELSE CustomizeFrom(h2, steps, i + 1, difficulty)

\* a customization that loses the last step
CustomizeDroppingLastStep(h, base_steps, difficulty) ==
    LET copy == DeepCopy(h, SubSeq(base_steps, 1, Len(base_steps) - 1))
        r    == CustomizeFrom(copy.heap, copy.steps, 1, difficulty)
    IN  [raised |-> r.raised, heap |-> r.heap, steps |-> copy.steps]

_customize_steps_for_difficulty(h, base_steps, difficulty) ==
    LET copy == DeepCopy(h, base_steps)
        r    == CustomizeFrom(copy.heap, copy.steps, 1, difficulty)
    IN  [raised |-> r.raised, heap |-> r.heap, steps |-> copy.steps]

\* the inner loop over the objectives for one step
RECURSIVE EnhanceStep(_, _)
EnhanceStep(step, objectives) ==
    IF objectives = <<>> THEN step
    ELSE LET objective == Head(objectives)
             hit  == In(lower[objective], lower[step.title])
                     \/ In(lower[objective], lower[step.description])
             next == IF hit
                     THEN SetItem(SetItem(step,
                            "learning_focus", Append(step.learning_focus, objective)),
                            "assessment_weight", 2)
                     ELSE step
         IN  EnhanceStep(next, Tail(objectives))

_enhance_steps_for_objectives(h, steps, objectives) ==
    [r \in DOMAIN h |->
        IF r \in Range(steps)
        THEN EnhanceStep(SetItem(h[r], "learning_focus", <<>>), objectives)
        ELSE h[r]]

-----------------------------------------------------------------------------
(* SimulationGenerator: complications *)

\* success probability by difficulty, in tenths
prob_map == "beginner" :> 3 @@ "intermediate" :> 5 @@ "advanced" :> 7 @@ "expert" :> 8

DefaultProbability == 5

\* a trigger drawn from every step of a six-step procedure
TriggerStepsAll == 1..6

\* random.randint(2, 5)
TriggerSteps == 2..5

\* The outcomes of _generate_complications over its random draws: u is
\* random.random() in tenths.  A complication type whose library entry has
\* no "severity" key raises KeyError when the dictionary literal is built.
_generate_complications(procedure_type, difficulty, u) ==
    IF ~(u < Get(prob_map, difficulty, DefaultProbability))
    THEN {[raised |-> "none", complications |-> <<>>]}
    ELSE LET possible_complications ==
                 IF procedure_type = "laparoscopic_cholecystectomy"
                 THEN <<"bleeding", "bowel_injury", "equipment_failure">>
                 ELSE <<"bleeding", "equipment_failure">>
             Outcomes(selected_complication) ==
                 LET complication_data == complication_library[selected_complication]
                 IN  IF ~Has(complication_data, "severity") \/ ~Has(complication_data, "locations")
                     THEN {[raised |-> "KeyError", complications |-> <<>>]}
                     ELSE {[raised |-> "none",
                            complications |->
                              << [type |-> selected_complication,
                                  severity |-> severity,
                                  location |-> location,
                                  trigger_step |-> trigger_step,
                                  management_options |-> complication_data.management] >>] :
                            severity \in Range(complication_data.severity),
                            location \in Range(complication_data.locations),
                            trigger_step \in TriggerSteps}
         IN  UNION {Outcomes(possible_complications[i]) : i \in DOMAIN possible_complications}

-----------------------------------------------------------------------------
(* SimulationGenerator.generate_scenario *)

\* The body of generate_scenario once the template is found.  created_at
\* (the wall clock) is left out of the scenario.
ScenarioFromTemplate(h, template, procedure_type, difficulty_level, learning_objectives, complications_enabled, u) ==
    LET custom == _customize_steps_for_difficulty(h, template.steps, difficulty_level)
    IN  IF custom.raised # "none"
        THEN {[raised |-> custom.raised, heap |-> custom.heap, value |-> None]}
        ELSE LET steps == custom.steps
                 h2    == _enhance_steps_for_objectives(custom.heap, steps, learning_objectives)
                 comps == IF complications_enabled
                          THEN _generate_complications(procedure_type, difficulty_level, u)
                          ELSE {[raised |-> "none", complications |-> <<>>]}
             IN  {IF c.raised # "none"
                  THEN [raised |-> c.raised, heap |-> h2, value |-> None]
                  ELSE [raised |-> "none", heap |-> h2,
                        value |->
                          [procedure_info |->
                              [name |-> template.name,
                               category |-> template.category,
                               estimated_duration |->
                                   _calculate_duration(h2, steps, difficulty_level)],
                           steps |-> steps,
                           complications |-> c.complications,
                           learning_objectives |-> learning_objectives,
                           difficulty_level |-> difficulty_level]]
                  : c \in comps}

\* a generator that falls back to the first template for an unknown procedure
GenerateScenarioDefaulting(h, templates, procedure_type, difficulty_level, learning_objectives, complications_enabled, u) ==
    ScenarioFromTemplate(h,
        Get(templates, procedure_type, templates["laparoscopic_cholecystectomy"]),
        procedure_type, difficulty_level, learning_objectives, complications_enabled, u)

\* The outcomes of one call over its random draws: the exception raised, the
\* heap the call leaves and, when it returns, the scenario.
generate_scenario(h, templates, procedure_type, difficulty_level, learning_objectives, complications_enabled, u) ==
    IF ~Has(templates, procedure_type)
    THEN {[raised |-> "ValueError", heap |-> h, value |-> None]}
    ELSE ScenarioFromTemplate(h, templates[procedure_type], procedure_type,
             difficulty_level, learning_objectives, complications_enabled, u)

\* objects no longer reachable from the catalog or from the caller's scenario
\* are reclaimed
Reachable(h, templates, scen) ==
    LET live == UNION {Range(templates[p].steps) : p \in DOMAIN templates}
                \cup (IF scen = None THEN {} ELSE Range(scen.steps))
    IN  [r \in live |-> h[r]]

-----------------------------------------------------------------------------
(* SimulationGenerator.get_next_step *)

AttachTriggeredByIndex(next_step, complications, current_step) ==
    IF complications # <<>> /\ Has(complications[1], "trigger_step")
       /\ complications[1].trigger_step = current_step
    THEN SetItem(next_step, "complication", complications[1])
    ELSE next_step

\* the loop over the complications: the last one whose trigger_step matches
\* stays attached
RECURSIVE AttachTriggered(_, _, _)
AttachTriggered(next_step, complications, current_step) ==
    IF complications = <<>> THEN next_step
    ELSE LET comp == Head(complications)
         IN  AttachTriggered(
                 IF Has(comp, "trigger_step") /\ comp.trigger_step = current_step + 1
                 THEN SetItem(next_step, "complication", comp)
                 ELSE next_step,
                 Tail(complications), current_step)

\* a get_next_step that would hold the trainee on the same step after a poor
\* assessment
GetNextStepRepeatingOnLowScore(h, simulation_data, current_step, assessment) ==
    LET steps == simulation_data.simulation.steps
        at    == IF assessment.score < 60 /\ current_step > 0
                 THEN current_step - 1 ELSE current_step
    IN  IF at >= Len(steps)
        THEN [raised |-> "none", heap |-> h,
              value |-> [completed |-> TRUE,
                         message |-> "Simulation completed successfully"]]
        ELSE IF ~PyIndexInRange(steps, at)
        THEN [raised |-> "IndexError", heap |-> h, value |-> None]
        ELSE [raised |-> "none", heap |-> h, value |-> [ref |-> PyIndex(steps, at)]]

\* returns the step's reference: the result is the scenario's own dictionary
get_next_step(h, simulation_data, current_step, assessment) ==
    IF ~Has(simulation_data, "simulation")
    THEN [raised |-> "KeyError", heap |-> h, value |-> None]
    ELSE LET steps == simulation_data.simulation.steps
         IN  IF current_step >= Len(steps)
             THEN [raised |-> "none", heap |-> h,
                   value |-> [completed |-> TRUE,
                              message |-> "Simulation completed successfully"]]
             ELSE IF ~PyIndexInRange(steps, current_step)
             THEN [raised |-> "IndexError", heap |-> h, value |-> None]
             ELSE LET next_step == PyIndex(steps, current_step)
                      complications == simulation_data.simulation.complications
                  IN  [raised |-> "none",
                       heap |-> [h EXCEPT ![next_step] =
                                    AttachTriggered(h[next_step], complications, current_step)],
                       value |-> [ref |-> next_step]]

-----------------------------------------------------------------------------
(* Scores.  The engine computes in floats; the model keeps every score as  *)
(* an exact fraction <<numerator, denominator>> in lowest terms, so that a *)
(* score is compared with its bounds without rounding.                     *)

RECURSIVE GCD(_, _)
GCD(a, b) == IF b = 0 THEN a ELSE GCD(b, a % b)

Abs(n) == IF n < 0 THEN 0 - n ELSE n

Frac(n, d) ==
    LET g == GCD(Abs(n), Abs(d))
        s == IF d < 0 THEN -1 ELSE 1
    IN  <<(s * n) \div g, (s * d) \div g>>

Whole(n) == <<n, 1>>

\* the operations divide by the common factors before they multiply, to keep
\* the intermediate integers small
FAdd(x, y) ==
    LET g == GCD(x[2], y[2])
    IN  Frac(x[1] * (y[2] \div g) + y[1] * (x[2] \div g), (x[2] \div g) * y[2])

FSub(x, y) == FAdd(x, <<0 - y[1], y[2]>>)

FMul(x, y) ==
    LET a == Frac(x[1], y[2])
        b == Frac(y[1], x[2])
    IN  Frac(a[1] * b[1], a[2] * b[2])

FDiv(x, y) == FMul(x, Frac(y[2], y[1]))

FLess(x, y) ==
    LET g == GCD(x[2], y[2])
    IN  x[1] * (y[2] \div g) < y[1] * (x[2] \div g)

FLeq(x, y) ==
    LET g == GCD(x[2], y[2])
    IN  x[1] * (y[2] \div g) <= y[1] * (x[2] \div g)

FMin(x, y) == IF FLeq(x, y) THEN x ELSE y

FMax(x, y) == IF FLeq(x, y) THEN y ELSE x

\* a decimal literal with two places, such as 0.15 or 0.8
Hundredths(n) == Frac(n, 100)

-----------------------------------------------------------------------------
(* AssessmentEngine: the tables *)

\* technical_skills of _load_scoring_criteria, in the order of the source;
\* the non_technical_skills entries are never read
scoring_criteria ==
    "laparoscopic_cholecystectomy" :>
        [technical_skills |->
            << [skill |-> "trocar_placement", max_score |-> 20, weight |-> Hundredths(15)],
               [skill |-> "camera_navigation", max_score |-> 15, weight |-> Hundredths(10)],
               [skill |-> "tissue_handling", max_score |-> 25, weight |-> Hundredths(20)],
               [skill |-> "critical_view_achievement", max_score |-> 30, weight |-> Hundredths(25)],
               [skill |-> "dissection_technique", max_score |-> 25, weight |-> Hundredths(20)],
               [skill |-> "hemostasis", max_score |-> 15, weight |-> Hundredths(10)] >>]
    @@
    "appendectomy" :>
        [technical_skills |->
            << [skill |-> "appendix_identification", max_score |-> 25, weight |-> Hundredths(25)],
               [skill |-> "mesoappendix_division", max_score |-> 30, weight |-> Hundredths(30)],
               [skill |-> "base_division", max_score |-> 25, weight |-> Hundredths(25)],
               [skill |-> "specimen_removal", max_score |-> 20, weight |-> Hundredths(20)] >>]

feedback_templates ==
    "excellent" :> <<"Outstanding technique demonstrated",
                     "Perfect execution of critical steps",
                     "Excellent decision-making under pressure">>
    @@
    "good" :> <<"Good technique with minor areas for improvement",
                "Solid understanding of procedure demonstrated",
                "Appropriate response to complications">>
    @@
    "needs_improvement" :> <<"Technique needs refinement in key areas",
                             "Consider additional practice on critical steps",
                             "Review anatomical landmarks and approach">>
    @@
    "poor" :> <<"Significant technical errors identified",
                "Safety concerns with current approach",
                "Requires substantial additional training">>

skill_keywords ==
    "trocar_placement" :> <<"trocar", "insertion", "pneumoperitoneum">>
    @@ "camera_navigation" :> <<"laparoscopy", "visualization", "camera">>
    @@ "tissue_handling" :> <<"dissection", "grasping", "manipulation">>
    @@ "critical_view_achievement" :> <<"critical view", "safety", "triangle">>
    @@ "dissection_technique" :> <<"dissect", "separate", "divide">>
    @@ "hemostasis" :> <<"bleeding", "clip", "cautery", "hemostasis">>

awareness_indicators ==
    <<"monitors_vitals", "checks_equipment", "communicates_status",
      "identifies_complications", "requests_assistance">>

-----------------------------------------------------------------------------
(* AssessmentEngine: technical skills.                                     *)
(* The numeric quality fields of an action (accuracy, clarity, timing,     *)
(* professionalism) are in hundredths: 85 stands for 0.85.                 *)

_is_skill_relevant_to_step(skill, step) ==
    IF Has(skill_keywords, skill)
    THEN \E i \in DOMAIN skill_keywords[skill] :
            \/ In(skill_keywords[skill][i], lower[step.title])
            \/ In(skill_keywords[skill][i], lower[step.description])
    ELSE FALSE

\* the score after the loop has run over the first n actions
RECURSIVE SkillScoreAfter(_, _, _, _)
SkillScoreAfter(skill, actions, time_taken, n) ==
    IF n = 0 THEN Whole(0)
    ELSE LET score  == SkillScoreAfter(skill, actions, time_taken, n - 1)
             action == actions[n]
         IN  IF In(skill, lower[Get(action, "skill_category", "")])
             THEN LET accuracy == Get(action, "accuracy", 0)
                      added == FAdd(score,
                                    Whole(IF accuracy > 80 THEN 20
                                          ELSE IF accuracy > 60 THEN 15 ELSE 5))
                      expected_time == Get(action, "expected_time", 300)
                  IN  IF 2 * time_taken > 3 * expected_time
                      THEN FMul(added, Hundredths(80))
                      ELSE added
             ELSE score

_score_technical_skill(skill, actions, time_taken) ==
    FMin(SkillScoreAfter(skill, actions, time_taken, Len(actions)), Whole(100))

\* total_score and total_weight after the loop has run over the first n skills
RECURSIVE TechnicalTotals(_, _, _, _, _)
TechnicalTotals(criteria, step, actions, time_taken, n) ==
    IF n = 0 THEN [total_score |-> Whole(0), total_weight |-> Whole(0)]
    ELSE LET t == TechnicalTotals(criteria, step, actions, time_taken, n - 1)
             scoring == criteria[n]
         IN  IF _is_skill_relevant_to_step(scoring.skill, step)
             THEN LET skill_score == _score_technical_skill(scoring.skill, actions, time_taken)
                  IN  [total_score |-> FAdd(t.total_score, FMul(skill_score, scoring.weight)),
                       total_weight |-> FAdd(t.total_weight, scoring.weight)]
             ELSE t

AssessTechnicalSkillsDefaultingCriteria(procedure_type, step, actions, time_taken) ==
    LET criteria == scoring_criteria["laparoscopic_cholecystectomy"].technical_skills
        t == TechnicalTotals(criteria, step, actions, time_taken, Len(criteria))
    IN  IF FLess(Whole(0), t.total_weight)
        THEN FMul(FDiv(t.total_score, t.total_weight), Whole(100))
        ELSE Whole(0)

\* procedure_type is a character sequence, as assess_step derives it
_assess_technical_skills(procedure_type, step, actions, time_taken) ==
    IF ~\E key \in DOMAIN scoring_criteria : Chars[key] = procedure_type
    THEN Whole(0)
    ELSE LET key == CHOOSE k \in DOMAIN scoring_criteria : Chars[k] = procedure_type
             criteria == scoring_criteria[key].technical_skills
             t == TechnicalTotals(criteria, step, actions, time_taken, Len(criteria))
         IN  IF FLess(Whole(0), t.total_weight)
             THEN FMul(FDiv(t.total_score, t.total_weight), Whole(100))
             ELSE Whole(0)

-----------------------------------------------------------------------------
(* AssessmentEngine: non-technical skills *)

SelectByType(actions, type) == SelectSeq(actions, LAMBDA a : Get(a, "type", "") = type)

RECURSIVE CommunicationPoints(_)
CommunicationPoints(communication_actions) ==
    IF communication_actions = <<>> THEN 0
    ELSE LET comm == Head(communication_actions)
         IN  (IF Get(comm, "clarity", 0) > 80 THEN 25 ELSE 0)
             + (IF Get(comm, "timing", 0) > 80 THEN 25 ELSE 0)
             + (IF Get(comm, "professionalism", 0) > 80 THEN 25 ELSE 0)
             + CommunicationPoints(Tail(communication_actions))

_assess_communication(actions) ==
    LET communication_actions == SelectByType(actions, "communication")
    IN  IF communication_actions = <<>> THEN Whole(50)
        ELSE FMin(Whole(CommunicationPoints(communication_actions)), Whole(100))

RECURSIVE CorrectDecisionsCountingAlternativesFully(_)
CorrectDecisionsCountingAlternativesFully(decision_actions) ==
    IF decision_actions = <<>> THEN 0
    ELSE (IF Get(Head(decision_actions), "outcome", "") \in {"correct", "safe_alternative"}
          THEN 10 ELSE 0)
         + CorrectDecisionsCountingAlternativesFully(Tail(decision_actions))

\* correct_decisions in tenths: 10 for a correct decision, 7 for a safe alternative
RECURSIVE CorrectDecisions(_)
CorrectDecisions(decision_actions) ==
    IF decision_actions = <<>> THEN 0
    ELSE LET decision == Head(decision_actions)
         IN  (IF Get(decision, "outcome", "") = "correct" THEN 10
              ELSE IF Get(decision, "outcome", "") = "safe_alternative" THEN 7 ELSE 0)
             + CorrectDecisions(Tail(decision_actions))

_assess_decision_making(actions, step) ==
    LET decision_actions == SelectByType(actions, "decision")
        total_decisions  == Len(decision_actions)
    IN  IF decision_actions = <<>> THEN Whole(70)
        ELSE FMul(Frac(CorrectDecisions(decision_actions), 10 * total_decisions), Whole(100))

AssessTimeManagementWithoutFloor(time_taken, step) ==
    LET duration_str   == Get(step, "duration", Chars["10-15 minutes"])
        duration_parts == Split(RemoveAll(duration_str, MinutesSuffix), "-")
        expected_min   == int(duration_parts[1]) * 60
        expected_max   == int(duration_parts[2]) * 60
    IN  IF expected_min <= time_taken /\ time_taken <= expected_max
        THEN Whole(100)
        ELSE IF time_taken < expected_min
        THEN FSub(Whole(100), FMul(Frac(expected_min - time_taken, expected_min), Whole(30)))
        ELSE FSub(Whole(100), FMul(Frac(time_taken - expected_max, expected_max), Whole(50)))

\* an expected_min of 0 never sends a time_taken >= 0 to the division by it
_assess_time_management(time_taken, step) ==
    LET duration_str   == Get(step, "duration", Chars["10-15 minutes"])
        duration_parts == Split(RemoveAll(duration_str, MinutesSuffix), "-")
        expected_min   == int(duration_parts[1]) * 60
        expected_max   == int(duration_parts[2]) * 60
    IN  IF expected_min <= time_taken /\ time_taken <= expected_max
        THEN Whole(100)
        ELSE IF time_taken < expected_min
        THEN FMax(Whole(70),
                  FSub(Whole(100), FMul(Frac(expected_min - time_taken, expected_min), Whole(30))))
        ELSE FMax(Whole(30),
                  FSub(Whole(100), FMul(Frac(time_taken - expected_max, expected_max), Whole(50))))

RECURSIVE AwarenessPoints(_)
AwarenessPoints(actions) ==
    IF actions = <<>> THEN 0
    ELSE LET action_type == Get(Head(actions), "type", "")
         IN  (IF \E i \in DOMAIN awareness_indicators : In(awareness_indicators[i], action_type)
              THEN 10 ELSE 0)
             + AwarenessPoints(Tail(actions))

_assess_situational_awareness(actions) ==
    FMin(Whole(70 + AwarenessPoints(actions)), Whole(100))

NonTechnicalEquallyWeighted(step, actions, time_taken) ==
    FMul(FAdd(FAdd(_assess_communication(actions), _assess_decision_making(actions, step)),
              FAdd(_assess_time_management(time_taken, step),
                   _assess_situational_awareness(actions))),
         Hundredths(25))

_assess_non_technical_skills(step, actions, time_taken) ==
    LET communication_score == _assess_communication(actions)
        decision_score      == _assess_decision_making(actions, step)
        time_score          == _assess_time_management(time_taken, step)
        awareness_score     == _assess_situational_awareness(actions)
    IN  FAdd(FAdd(FAdd(FMul(communication_score, Hundredths(30)),
                       FMul(decision_score, Hundredths(35))),
                  FMul(time_score, Hundredths(20))),
             FMul(awareness_score, Hundredths(15)))

-----------------------------------------------------------------------------
(* AssessmentEngine: feedback *)

_generate_technical_feedback(score, actions) ==
    IF FLeq(Whole(85), score)
    THEN "Excellent technical execution with proper instrument handling and surgical technique."
    ELSE IF FLeq(Whole(70), score)
    THEN "Good technical skills demonstrated with room for refinement in precision."
    ELSE IF FLeq(Whole(55), score)
    THEN "Technical skills need improvement. Focus on instrument control and anatomical identification."
    ELSE "Significant technical deficiencies identified. Additional practice and supervision recommended."

_generate_non_technical_feedback(score) ==
    IF FLeq(Whole(85), score)
    THEN "Outstanding communication and decision-making throughout the procedure."
    ELSE IF FLeq(Whole(70), score)
    THEN "Good team interaction and appropriate clinical decisions made."
    ELSE IF FLeq(Whole(55), score)
    THEN "Communication and decision-making skills need development."
    ELSE "Poor team communication and questionable clinical decisions observed."

_generate_recommendations(score, step) ==
    (IF FLess(score, Whole(70))
     THEN << <<"Review ", lower[step.title], " technique in textbook">>,
             <<"Practice on simulation models before next attempt">>,
             <<"Seek mentorship for technique refinement">> >>
     ELSE <<>>)
    \o
    (IF FLess(score, Whole(85))
     THEN << <<"Focus on smooth, deliberate movements">>,
             <<"Improve communication with surgical team">> >>
     ELSE <<>>)

PerformanceLevelAboveThresholds(overall_score) ==
    IF FLess(Whole(90), overall_score) THEN "excellent"
    ELSE IF FLess(Whole(75), overall_score) THEN "good"
    ELSE IF FLess(Whole(60), overall_score) THEN "needs_improvement"
    ELSE "poor"

PerformanceLevel(overall_score) ==
    IF FLeq(Whole(90), overall_score) THEN "excellent"
    ELSE IF FLeq(Whole(75), overall_score) THEN "good"
    ELSE IF FLeq(Whole(60), overall_score) THEN "needs_improvement"
    ELSE "poor"

\* random.choice picks any of the level's templates: the set of the feedbacks
\* the call can return
_generate_step_feedback(overall_score, technical_score, non_technical_score, step, actions) ==
    LET level == PerformanceLevel(overall_score)
        technical_feedback == _generate_technical_feedback(technical_score, actions)
        non_technical_feedback == _generate_non_technical_feedback(non_technical_score)
        recommendations == _generate_recommendations(overall_score, step)
    IN  {[overall_level |-> level,
          summary |-> summary,
          technical_feedback |-> technical_feedback,
          non_technical_feedback |-> non_technical_feedback,
          recommendations |-> recommendations] : summary \in Range(feedback_templates[level])}

_identify_improvement_areas(technical_score, non_technical_score, actions) ==
    (IF FLess(technical_score, Whole(70)) THEN <<"Technical Skills">> ELSE <<>>)
    \o (IF FLess(non_technical_score, Whole(70))
        THEN <<"Communication & Decision Making">> ELSE <<>>)
    \o (IF \E i \in DOMAIN actions : Get(actions[i], "hesitation_time", 0) > 30
        THEN <<"Confidence & Decision Speed">> ELSE <<>>)
    \o (IF \E i \in DOMAIN actions : Get(actions[i], "accuracy", 100) < 60
        THEN <<"Precision & Accuracy">> ELSE <<>>)

-----------------------------------------------------------------------------
(* AssessmentEngine.assess_step *)

\* The set of the outcomes the call can have, one for each summary that
\* random.choice can pick.  timestamp (the wall clock) is left out.
assess_step(h, simulation_data, step_number, user_actions, time_taken) ==
    IF ~Has(simulation_data, "simulation")
    THEN {[raised |-> "KeyError", value |-> None]}
    ELSE LET steps == simulation_data.simulation.steps
             procedure_type ==
                 ReplaceChar(Chars[lower[simulation_data.simulation.procedure_info.name]],
                             " ", <<"_">>)
         IN  IF ~PyIndexInRange(steps, step_number - 1)
             THEN {[raised |-> "IndexError", value |-> None]}
             ELSE LET current_step == h[PyIndex(steps, step_number - 1)]
                      technical_score ==
                          _assess_technical_skills(procedure_type, current_step,
                                                   user_actions, time_taken)
                      non_technical_score ==
                          _assess_non_technical_skills(current_step, user_actions, time_taken)
                      overall_score ==
                          FAdd(FMul(technical_score, Hundredths(70)),
                               FMul(non_technical_score, Hundredths(30)))
                      areas_for_improvement ==
                          _identify_improvement_areas(technical_score, non_technical_score,
                                                      user_actions)
                  IN  {[raised |-> "none",
                        value |->
                          [step_number |-> step_number,
                           technical_score |-> technical_score,
                           non_technical_score |-> non_technical_score,
                           overall_score |-> overall_score,
                           feedback |-> feedback,
                           time_taken |-> time_taken,
                           areas_for_improvement |-> areas_for_improvement]] :
                       feedback \in _generate_step_feedback(overall_score, technical_score,
                                        non_technical_score, current_step, user_actions)}

-----------------------------------------------------------------------------
(* AssessmentEngine.generate_final_assessment *)

RECURSIVE FSum(_)
FSum(xs) == IF xs = <<>> THEN Whole(0) ELSE FAdd(Head(xs), FSum(Tail(xs)))

Average(xs) == FDiv(FSum(xs), Whole(Len(xs)))

Column(assessments, key) == [i \in DOMAIN assessments |-> assessments[i][key]]

\* round(x, 1) for x >= 0: the tenths nearest to x.  Halfway between two tenths
\* a value that a float holds exactly goes to the even one; any other halfway
\* value is held by a float just above or just below it, and goes either way.
Round1(x) ==
    LET n    == 10 * x[1]
        d    == x[2]
        f    == n \div d
        rest == n - f * d
    IN  IF 2 * rest < d THEN {Frac(f, 10)}
        ELSE IF 2 * rest > d THEN {Frac(f + 1, 10)}
        ELSE IF (2 * f + 1) % 5 = 0
             THEN {Frac(IF f % 2 = 0 THEN f ELSE f + 1, 10)}
             ELSE {Frac(f, 10), Frac(f + 1, 10)}

\* round(max(0, 100 - std_dev * 2), 1) for the variance v = std_dev ** 2:
\* k tenths is a nearest value when (1999 - 2k)/40 <= std_dev <= (2001 - 2k)/40
ConsistencyOfVariance(v) ==
    IF FLeq(Whole(2500), v) THEN {Whole(0)}
    ELSE {Frac(k, 10) : k \in
            {k \in 0..1000 :
                /\ FLeq(v, Frac((2001 - 2 * k) * (2001 - 2 * k), 1600))
                /\ \/ 1999 - 2 * k <= 0
                   \/ FLeq(Frac((1999 - 2 * k) * (1999 - 2 * k), 1600), v)}}

_calculate_consistency(scores) ==
    IF Len(scores) < 2 THEN {Whole(100)}
    ELSE LET mean == Average(scores)
             squares == [i \in DOMAIN scores |->
                            FMul(FSub(scores[i], mean), FSub(scores[i], mean))]
         IN  ConsistencyOfVariance(Average(squares))

\* scores.index(max(scores)) + 1 and scores.index(min(scores)) + 1
IndexOfMax(scores) ==
    CHOOSE i \in DOMAIN scores :
        /\ \A j \in DOMAIN scores : FLeq(scores[j], scores[i])
        /\ \A j \in 1..(i - 1) : scores[j] # scores[i]

IndexOfMin(scores) ==
    CHOOSE i \in DOMAIN scores :
        /\ \A j \in DOMAIN scores : FLeq(scores[i], scores[j])
        /\ \A j \in 1..(i - 1) : scores[j] # scores[i]

TrendDirectionHalvingUpwards(scores) ==
    IF Len(scores) > 1
    THEN LET half == (Len(scores) + 1) \div 2
             avg_first  == Average(SubSeq(scores, 1, half))
             avg_second == Average(SubSeq(scores, half + 1, Len(scores)))
         IN  IF FLess(FAdd(avg_first, Whole(5)), avg_second) THEN "improving"
             ELSE IF FLess(avg_second, FSub(avg_first, Whole(5))) THEN "declining"
             ELSE "stable"
    ELSE "insufficient_data"

TrendDirection(scores) ==
    IF Len(scores) > 1
    THEN LET half == Len(scores) \div 2
             avg_first  == Average(SubSeq(scores, 1, half))
             avg_second == Average(SubSeq(scores, half + 1, Len(scores)))
         IN  IF FLess(FAdd(avg_first, Whole(5)), avg_second) THEN "improving"
             ELSE IF FLess(avg_second, FSub(avg_first, Whole(5))) THEN "declining"
             ELSE "stable"
    ELSE "insufficient_data"

\* the set of the results: one for each value the rounding can give
_analyze_performance_trends(assessments) ==
    LET scores == Column(assessments, "overall_score")
    IN  {[direction |-> TrendDirection(scores),
          consistency |-> consistency,
          peak_performance_step |-> IndexOfMax(scores),
          lowest_performance_step |-> IndexOfMin(scores)] :
         consistency \in _calculate_consistency(scores)}

\* the f-strings are kept as the sequences of their parts
_generate_final_feedback(overall_score, trends, simulation_data) ==
    IF ~Has(simulation_data, "simulation")
    THEN [raised |-> "KeyError", value |-> None]
    ELSE LET procedure_name == simulation_data.simulation.procedure_info.name
             difficulty == simulation_data.simulation.difficulty_level
             level ==
                 IF FLeq(Whole(90), overall_score)
                 THEN [performance_level |-> "Outstanding",
                       message |-> <<"Exceptional performance on ", procedure_name,
                                     " at ", difficulty, " level.">>]
                 ELSE IF FLeq(Whole(75), overall_score)
                 THEN [performance_level |-> "Proficient",
                       message |-> <<"Good performance on ", procedure_name,
                                     " with areas for refinement.">>]
                 ELSE IF FLeq(Whole(60), overall_score)
                 THEN [performance_level |-> "Developing",
                       message |-> <<"Developing skills demonstrated. Continue practice on ",
                                     procedure_name, ".">>]
                 ELSE [performance_level |-> "Novice",
                       message |-> <<"Foundational skills need development before attempting ",
                                     procedure_name, ".">>]
         IN  [raised |-> "none",
              value |-> [performance_level |-> level.performance_level,
                         summary_message |-> level.message,
                         trend_analysis |-> <<"Performance trend: ", trends.direction>>,
                         consistency_note |->
                             <<"Consistency rating: ", trends.consistency, "%">>]]

_generate_learning_plan(technical_avg, non_technical_avg, trends) ==
    LET weak_technical == FLess(technical_avg, Whole(70))
        weak_non_technical == FLess(non_technical_avg, Whole(70))
    IN  [immediate_focus |->
            (IF weak_technical THEN <<"Technical Skill Development">> ELSE <<>>)
            \o (IF weak_non_technical THEN <<"Communication & Decision Making">> ELSE <<>>),
         practice_recommendations |->
            (IF weak_technical
             THEN <<"Practice basic laparoscopic skills on trainer",
                    "Review anatomical landmarks",
                    "Work on instrument handling precision">>
             ELSE <<>>)
            \o (IF weak_non_technical
                THEN <<"Practice team communication scenarios",
                       "Review decision-making frameworks",
                       "Participate in team-based simulations">>
                ELSE <<>>),
         next_steps |->
            IF FLeq(Whole(85), technical_avg) /\ FLeq(Whole(85), non_technical_avg)
            THEN <<"Ready for increased difficulty level",
                   "Consider mentoring junior trainees">>
            ELSE IF FLeq(Whole(75), technical_avg) /\ FLeq(Whole(75), non_technical_avg)
            THEN <<"Practice additional procedure variations",
                   "Focus on efficiency improvements">>
            ELSE <<"Repeat current difficulty level", "Seek additional supervision">>]

SummaryOf(assessment) == Get(Get(assessment, "feedback", <<>>), "summary", "")

_count_safety_violations(assessments) ==
    Cardinality({i \in DOMAIN assessments : In("safety", lower[SummaryOf(assessments[i])])})

ComplicationsHandled(assessments) ==
    Cardinality({i \in DOMAIN assessments : In("complication", SummaryOf(assessments[i]))})

_calculate_efficiency(total_time, simulation_data) ==
    LET expected_duration ==
            Get(simulation_data.simulation.procedure_info, "estimated_duration", 60) * 60
    IN  IF total_time <= expected_duration THEN "Excellent"
        ELSE IF 10 * total_time <= 12 * expected_duration THEN "Good"
        ELSE IF 10 * total_time <= 15 * expected_duration THEN "Acceptable"
        ELSE "Needs Improvement"

RECURSIVE SumTimes(_)
SumTimes(assessments) ==
    IF assessments = <<>> THEN 0
    ELSE Head(assessments).time_taken + SumTimes(Tail(assessments))

NoAssessmentsMarker == [error |-> "No step assessments found"]

GenerateFinalAssessmentAveragingFirst(simulation_data) ==
    IF Get(simulation_data, "step_assessments", <<>>) = <<>>
    THEN {[raised |-> "ZeroDivisionError", value |-> None]}
    ELSE {[raised |-> "KeyError", value |-> None]}

\* The set of the outcomes, one for each value the roundings can give.
\* completion_date (the wall clock) is left out.
generate_final_assessment(simulation_data) ==
    LET step_assessments == Get(simulation_data, "step_assessments", <<>>)
    IN  IF step_assessments = <<>>
        THEN {[raised |-> "none", value |-> NoAssessmentsMarker]}
        ELSE LET avg_technical == Average(Column(step_assessments, "technical_score"))
                 avg_non_technical ==
                     Average(Column(step_assessments, "non_technical_score"))
                 avg_overall == Average(Column(step_assessments, "overall_score"))
                 total_time == SumTimes(step_assessments)
             IN  IF ~Has(simulation_data, "simulation")
                 THEN {[raised |-> "KeyError", value |-> None]}
                 ELSE {[raised |-> "none",
                        value |->
                          [simulation_id |-> Get(simulation_data, "simulation_id", None),
                           scores |->
                              [technical_average |-> technical_average,
                               non_technical_average |-> non_technical_average,
                               overall_average |-> overall_average,
                               individual_steps |->
                                  [i \in DOMAIN step_assessments |->
                                      [step |-> step_assessments[i].step_number,
                                       score |-> step_assessments[i].overall_score,
                                       time |-> step_assessments[i].time_taken]]],
                           performance_metrics |->
                              [total_time_minutes |-> total_time_minutes,
                               complications_handled |-> ComplicationsHandled(step_assessments),
                               safety_violations |-> _count_safety_violations(step_assessments),
                               efficiency_rating |->
                                   _calculate_efficiency(total_time, simulation_data)],
                           trends |-> trends,
                           final_feedback |->
                               _generate_final_feedback(avg_overall, trends,
                                                        simulation_data).value,
                           learning_plan |->
                               _generate_learning_plan(avg_technical, avg_non_technical,
                                                       trends),
                           certification_eligible |-> FLeq(Whole(75), avg_overall),
                           next_difficulty_ready |-> FLeq(Whole(85), avg_overall)]] :
                       technical_average \in Round1(avg_technical),
                       non_technical_average \in Round1(avg_non_technical),
                       overall_average \in Round1(avg_overall),
                       total_time_minutes \in Round1(Frac(total_time, 60)),
                       trends \in _analyze_performance_trends(step_assessments)}

-----------------------------------------------------------------------------
(* DatabaseManager.  A table is the sequence of its rows in the order of    *)
(* their insertion.  The timestamps (wall clock) are left out.  locked      *)
(* tells that a connection which was never closed still holds the write     *)
(* lock of the file: a method that raises after its first statement has     *)
(* run returns from its except clause without closing the connection, and   *)
(* the connection lives until the garbage collector finds it.               *)

init_database ==
    [simulations |-> <<>>, step_assessments |-> <<>>, complications |-> <<>>,
     performance_metrics |-> <<>>, locked |-> FALSE]

\* json.dumps writes the contents of what the value refers to, json.loads
\* builds new objects from the text: a stored scenario holds its steps'
\* dictionaries themselves, whatever becomes of the caller's
Snapshot(h, simulation_data) ==
    IF Has(simulation_data, "steps")
    THEN [simulation_data EXCEPT !.steps = [i \in DOMAIN @ |-> h[@[i]]]]
    ELSE simulation_data

json_dumps(value) == [json |-> value]

json_loads(text) == text.json

RowsOf(table, simulation_id) ==
    SelectSeq(table, LAMBDA row : row.simulation_id = simulation_id)

SimulationRows(d, simulation_id) ==
    SelectSeq(d.simulations, LAMBDA row : row.id = simulation_id)

SaveSimulationReplacing(d, h, simulation_id, simulation_data, patient_data) ==
    LET row == [id |-> simulation_id,
                procedure_type |-> simulation_data.procedure_info.name,
                difficulty_level |-> simulation_data.difficulty_level,
                patient_data |-> json_dumps(patient_data),
                simulation_data |-> json_dumps(Snapshot(h, simulation_data)),
                completed_at |-> None,
                status |-> "active"]
    IN  IF d.locked THEN [db |-> d, value |-> FALSE]
        ELSE [db |-> [d EXCEPT !.simulations =
                         Append(SelectSeq(@, LAMBDA r : r.id # simulation_id), row)],
              value |-> TRUE]

save_simulation(d, h, simulation_id, simulation_data, patient_data) ==
    IF ~(/\ Has(simulation_data, "procedure_info")
         /\ Has(simulation_data.procedure_info, "name")
         /\ Has(simulation_data, "difficulty_level"))
    THEN [db |-> d, value |-> FALSE]
    ELSE IF d.locked
    THEN [db |-> d, value |-> FALSE]
    ELSE IF SimulationRows(d, simulation_id) # <<>>
    THEN [db |-> [d EXCEPT !.locked = TRUE], value |-> FALSE]
    ELSE [db |-> [d EXCEPT !.simulations =
                     Append(@, [id |-> simulation_id,
                                procedure_type |-> simulation_data.procedure_info.name,
                                difficulty_level |-> simulation_data.difficulty_level,
                                patient_data |-> json_dumps(patient_data),
                                simulation_data |-> json_dumps(Snapshot(h, simulation_data)),
                                completed_at |-> None,
                                status |-> "active"])],
          value |-> TRUE]

\* ORDER BY step_number leaves the order of rows with the same step_number
\* open: the set of the lists the query can return
get_step_assessments(d, simulation_id) ==
    LET results == RowsOf(d.step_assessments, simulation_id)
        orders  == {p \in Permutations(DOMAIN results) :
                       \A i, j \in DOMAIN results :
                           i < j => results[p[i]].step_number <= results[p[j]].step_number}
    IN  {[i \in DOMAIN results |->
             LET row == results[p[i]]
             IN  [step_number |-> row.step_number,
                  technical_score |-> row.technical_score,
                  non_technical_score |-> row.non_technical_score,
                  overall_score |-> row.overall_score,
                  time_taken |-> row.time_taken,
                  user_actions |-> json_loads(row.user_actions),
                  feedback |-> json_loads(row.feedback)]] : p \in orders}

\* {**simulation_data, ...}: the five keys after it win over the scenario's
NoSimulation == [x \in {} |-> x]

get_simulation(d, simulation_id) ==
    LET found == SimulationRows(d, simulation_id)
    IN  IF found # <<>>
        THEN LET patient_data    == json_loads(found[1].patient_data)
                 simulation_data == json_loads(found[1].simulation_data)
             IN  {[simulation_id |-> simulation_id,
                   patient |-> patient_data,
                   status |-> found[1].status,
                   step_assessments |-> step_assessments,
                   current_step |-> Len(step_assessments)] @@ simulation_data :
                  step_assessments \in get_step_assessments(d, simulation_id)}
        ELSE {NoSimulation}

update_simulation_progress(d, simulation_id, step_number, assessment, user_actions) ==
    IF ~({"technical_score", "non_technical_score", "overall_score", "time_taken",
          "feedback"} \subseteq DOMAIN assessment)
    THEN [db |-> d, value |-> FALSE]
    ELSE IF d.locked
    THEN [db |-> d, value |-> FALSE]
    ELSE [db |-> [d EXCEPT !.step_assessments =
                     Append(@, [simulation_id |-> simulation_id,
                                step_number |-> step_number,
                                technical_score |-> assessment.technical_score,
                                non_technical_score |-> assessment.non_technical_score,
                                overall_score |-> assessment.overall_score,
                                time_taken |-> assessment.time_taken,
                                user_actions |-> json_dumps(user_actions),
                                feedback |-> json_dumps(assessment.feedback)])],
          value |-> TRUE]

add_complication(d, simulation_id, complication) ==
    IF ~({"type", "severity"} \subseteq DOMAIN complication)
    THEN [db |-> d, value |-> FALSE]
    ELSE IF d.locked
    THEN [db |-> d, value |-> FALSE]
    ELSE [db |-> [d EXCEPT !.complications =
                     Append(@, [simulation_id |-> simulation_id,
                                complication_type |-> complication.type,
                                severity |-> complication.severity,
                                trigger_step |-> Get(complication, "trigger_step", 0),
                                resolved |-> FALSE,
                                management_actions |->
                                    json_dumps(Get(complication, "management_options", <<>>))])],
          value |-> TRUE]

MarkAllCompleted(simulations, simulation_id) ==
    [i \in DOMAIN simulations |->
        [simulations[i] EXCEPT !.completed_at = "CURRENT_TIMESTAMP", !.status = "completed"]]

MarkCompleted(simulations, simulation_id) ==
    [i \in DOMAIN simulations |->
        IF simulations[i].id = simulation_id
        THEN [simulations[i] EXCEPT !.completed_at = "CURRENT_TIMESTAMP",
                                    !.status = "completed"]
        ELSE simulations[i]]

CompleteSimulationCommittingUpdate(d, simulation_id, final_assessment) ==
    IF d.locked
    THEN [db |-> d, value |-> FALSE]
    ELSE [db |-> [d EXCEPT !.simulations = MarkCompleted(@, simulation_id)],
          value |-> Has(final_assessment, "scores")]

\* the UPDATE has run when final_assessment['scores']['overall_average'] is
\* read: a KeyError there leaves the UPDATE uncommitted and the lock held
complete_simulation(d, simulation_id, final_assessment) ==
    IF d.locked
    THEN [db |-> d, value |-> FALSE]
    ELSE IF ~(Has(final_assessment, "scores")
              /\ Has(final_assessment.scores, "overall_average"))
    THEN [db |-> [d EXCEPT !.locked = TRUE], value |-> FALSE]
    ELSE [db |-> [d EXCEPT
                    !.simulations = MarkCompleted(@, simulation_id),
                    !.performance_metrics =
                        Append(@, [simulation_id |-> simulation_id,
                                   metric_name |-> "final_assessment",
                                   metric_value |-> final_assessment.scores.overall_average,
                                   metric_data |-> json_dumps(final_assessment)])],
          value |-> TRUE]

\* the garbage collector closes the connection that was left open: what it
\* had not committed is rolled back and the lock is released
CloseLeakedConnection(d) == [d EXCEPT !.locked = FALSE]

-----------------------------------------------------------------------------
(* SimulationGenerator.generate_current_vitals, generate_dynamic_complication *)

\* one pass of the loop over the complications
RECURSIVE ApplyComplicationEffects(_, _)
ApplyComplicationEffects(current_vitals, complications) ==
    IF complications = <<>> THEN current_vitals
    ELSE LET comp == Head(complications)
             next == IF comp.type = "bleeding" /\ comp.severity = "severe"
                     THEN [current_vitals EXCEPT
                             !.heart_rate = @ + 20,
                             !.blood_pressure.systolic = @ - 15]
                     ELSE current_vitals
         IN  ApplyComplicationEffects(next, Tail(complications))

\* jitter holds the values of the six random draws; temperature is in tenths
generate_current_vitals(patient, current_step, complications, jitter) ==
    LET base_vitals == patient.vitals
        current_vitals ==
            [heart_rate |-> base_vitals.heart_rate + jitter.heart_rate,
             blood_pressure |->
                 [systolic  |-> base_vitals.blood_pressure.systolic + jitter.systolic,
                  diastolic |-> base_vitals.blood_pressure.diastolic + jitter.diastolic],
             oxygen_saturation |-> base_vitals.oxygen_saturation + jitter.oxygen_saturation,
             temperature |-> base_vitals.temperature + jitter.temperature,
             respiratory_rate |-> base_vitals.respiratory_rate + jitter.respiratory_rate]
    IN  IF \E i \in DOMAIN complications :
               ~Has(complications[i], "type") \/ ~Has(complications[i], "severity")
        THEN [raised |-> "KeyError", value |-> None]
        ELSE [raised |-> "none",
              value |-> ApplyComplicationEffects(current_vitals, complications)]

complication_scenarios ==
    "unexpected_bleeding" :>
        [description |-> "Unexpected bleeding from hepatic artery branch",
         severity |-> "moderate",
         immediate_actions |-> <<"Apply direct pressure", "Identify bleeding source",
                                 "Consider clip application">>,
         time_limit |-> 300]
    @@
    "adhesions" :>
        [description |-> "Dense adhesions obscuring critical view",
         severity |-> "mild",
         immediate_actions |-> <<"Careful adhesiolysis", "Maintain visualization",
                                 "Consider alternative approach">>,
         time_limit |-> 600]

EmptyDict == [x \in {} |-> x]

\* selected is the value random.choice draws from the three names
generate_dynamic_complication(simulation_data, current_step, selected) ==
    IF ~Has(simulation_data, "simulation")
    THEN [raised |-> "KeyError", value |-> None]
    ELSE [raised |-> "none", value |-> Get(complication_scenarios, selected, EmptyDict)]

DynamicComplicationNames == {"unexpected_bleeding", "adhesions", "equipment_malfunction"}

-----------------------------------------------------------------------------
(* The caller: a test or a request that generates one scenario, calls the  *)
(* generator on it, reads each result before the next call, and in the end *)
(* drops the scenario.                                                     *)

NoResult == [op |-> "none"]

ProcedureInputs ==
    {"laparoscopic_cholecystectomy", "appendectomy", "knee_arthroscopy",
     "invalid_procedure", ""}

KnownDifficulties == {"beginner", "intermediate", "advanced", "expert"}

DifficultyInputs == KnownDifficulties \cup {"novice"}

ObjectiveInputs == {<<>>, <<"Trocar">>, <<"suturing", "Trocar">>}

\* random.random() in tenths: below every probability of prob_map, between
\* them, above them all
RandomUnitInputs == {2, 6, 9}

\* how far past the ends of the step list the caller's indexes go
IndexSlack == 1

MaxSteps ==
    CHOOSE n \in 0..Cardinality(TemplateRefs) :
        /\ \E p \in DOMAIN _load_procedure_templates : Len(_load_procedure_templates[p].steps) = n
        /\ \A p \in DOMAIN _load_procedure_templates : Len(_load_procedure_templates[p].steps) <= n

StepIndexInputs == (0 - MaxSteps - IndexSlack)..(MaxSteps + IndexSlack)

\* the assessment handed to get_next_step: the test's, and a poor one
AssessmentInputs == {[score |-> 85], [score |-> 20]}

\* a patient of PatientGenerator._generate_baseline_vitals (temperature in tenths)
PatientInputs ==
    {[vitals |-> [heart_rate |-> 72,
                  blood_pressure |-> [systolic |-> 120, diastolic |-> 80],
                  respiratory_rate |-> 16,
                  temperature |-> 368,
                  oxygen_saturation |-> 98]]}

\* the ends of the ranges of the random draws
JitterInputs ==
    {[heart_rate |-> -5, systolic |-> -10, diastolic |-> -5,
      oxygen_saturation |-> -2, temperature |-> -5, respiratory_rate |-> -2],
     [heart_rate |-> 10, systolic |-> 5, diastolic |-> 5,
      oxygen_saturation |-> 1, temperature |-> 3, respiratory_rate |-> 3]}

Init ==
    /\ heap = TemplateStepObjects
    /\ procedure_templates = _load_procedure_templates
    /\ scenario = None
    /\ result = NoResult
    /\ db = init_database

Idle == result = NoResult

GenerateScenarioWith(procedures, difficulties, objectives, enabled) ==
    /\ Idle
    /\ scenario = None
    /\ \E procedure_type \in procedures, difficulty_level \in difficulties,
          learning_objectives \in objectives, complications_enabled \in enabled,
          u \in RandomUnitInputs :
         \E out \in generate_scenario(heap, procedure_templates, procedure_type,
                                      difficulty_level, learning_objectives,
                                      complications_enabled, u) :
            /\ scenario' = out.value
            /\ heap' = Reachable(out.heap, procedure_templates, out.value)
            /\ result' = [op |-> "generate_scenario",
                          procedure_type |-> procedure_type,
                          difficulty_level |-> difficulty_level,
                          complications_enabled |-> complications_enabled,
                          raised |-> out.raised]
    /\ UNCHANGED <<procedure_templates, db>>

GenerateScenario ==
    GenerateScenarioWith(ProcedureInputs, DifficultyInputs, ObjectiveInputs, BOOLEAN)

GetNextStep ==
    /\ Idle
    /\ scenario # None
    /\ \E current_step \in StepIndexInputs, assessment \in AssessmentInputs :
         LET out == get_next_step(heap, [simulation |-> scenario], current_step,
                                  assessment)
         IN  /\ heap' = out.heap
             /\ result' = [op |-> "get_next_step", current_step |-> current_step,
                           assessment |-> assessment,
                           raised |-> out.raised, value |-> out.value]
    /\ UNCHANGED <<procedure_templates, scenario, db>>

GenerateCurrentVitals ==
    /\ Idle
    /\ scenario # None
    /\ \E patient \in PatientInputs, jitter \in JitterInputs :
         LET out == generate_current_vitals(patient, 0, scenario.complications, jitter)
         IN  result' = [op |-> "generate_current_vitals",
                        raised |-> out.raised, value |-> out.value]
    /\ UNCHANGED <<heap, procedure_templates, scenario, db>>

GenerateDynamicComplication ==
    /\ Idle
    /\ scenario # None
    /\ \E selected \in DynamicComplicationNames :
         LET out == generate_dynamic_complication([simulation |-> scenario], 2, selected)
         IN  result' = [op |-> "generate_dynamic_complication",
                        raised |-> out.raised, value |-> out.value]
    /\ UNCHANGED <<heap, procedure_templates, scenario, db>>

\* the caller has read the result
Return ==
    /\ ~Idle
    /\ result' = NoResult
    /\ UNCHANGED <<heap, procedure_templates, scenario, db>>

\* the caller drops its scenario
Discard ==
    /\ Idle
    /\ scenario # None
    /\ scenario' = None
    /\ heap' = Reachable(heap, procedure_templates, None)
    /\ UNCHANGED <<procedure_templates, result, db>>

NextGenerator ==
    \/ GenerateScenario
    \/ GetNextStep
    \/ GenerateCurrentVitals
    \/ GenerateDynamicComplication
    \/ Return
    \/ Discard

SpecGenerator == Init /\ [][NextGenerator]_vars


-----------------------------------------------------------------------------
(* The caller of the assessment engine *)

MaxActions == 2

\* tracked user actions; accuracy, clarity, timing, professionalism in hundredths
ActionInputs ==
    {"type" :> "skill" @@ "skill_category" :> "Trocar_Placement" @@ "accuracy" :> 90,
     "type" :> "skill" @@ "skill_category" :> "tissue_handling" @@ "accuracy" :> 50
         @@ "expected_time" :> 1200 @@ "hesitation_time" :> 45,
     "type" :> "communication" @@ "clarity" :> 90 @@ "timing" :> 90
         @@ "professionalism" :> 70,
     "type" :> "decision" @@ "outcome" :> "correct",
     "type" :> "decision" @@ "outcome" :> "safe_alternative",
     "type" :> "decision" @@ "outcome" :> "incorrect",
     "type" :> "monitors_vitals"}

ActionListInputs == UNION {[1..n -> ActionInputs] : n \in 0..MaxActions}

\* seconds: nothing, inside the 10-15 minutes of a step, late, far too late
TimeTakenInputs == {0, 720, 1500, 300000}

AssessedProcedures == {"laparoscopic_cholecystectomy", "appendectomy", "knee_arthroscopy"}

AssessedDifficulties == {"intermediate"}

GeneratePlainScenario ==
    GenerateScenarioWith(AssessedProcedures, AssessedDifficulties, {<<>>}, {FALSE})

AssessStep ==
    /\ Idle
    /\ scenario # None
    /\ \E step_number \in StepIndexInputs, user_actions \in ActionListInputs,
          time_taken \in TimeTakenInputs :
         \E out \in assess_step(heap, [simulation |-> scenario], step_number,
                                user_actions, time_taken) :
            result' = [op |-> "assess_step", step_number |-> step_number,
                       user_actions |-> user_actions, time_taken |-> time_taken,
                       raised |-> out.raised, value |-> out.value]
    /\ UNCHANGED <<heap, procedure_templates, scenario, db>>

NextAssessment ==
    \/ GeneratePlainScenario
    \/ AssessStep
    \/ Return
    \/ Discard

SpecAssessment == Init /\ [][NextAssessment]_vars
-----------------------------------------------------------------------------
(* The sub-scores of a step, each called on its own *)

\* seconds: around the ends and at the middle of the steps' durations
TimeManagementInputs ==
    {0, 60, 179, 180, 299, 300, 420, 421, 450, 599, 600, 750, 900, 901, 1200,
     1800, 1801, 2400, 4500, 300000}

SkillInputs == {"trocar_placement", "tissue_handling", "hemostasis"}

\* scenarios with the durations of the template and with the shortened ones
GenerateTimedScenario ==
    GenerateScenarioWith(AssessedProcedures, {"intermediate", "expert"}, {<<>>}, {FALSE})

AssessTimeManagement ==
    /\ Idle
    /\ scenario # None
    /\ \E i \in DOMAIN scenario.steps, time_taken \in TimeManagementInputs :
         LET step == heap[scenario.steps[i]]
         IN  result' = [op |-> "_assess_time_management", step |-> step,
                        time_taken |-> time_taken,
                        value |-> _assess_time_management(time_taken, step)]
    /\ UNCHANGED <<heap, procedure_templates, scenario, db>>

AssessDecisionMaking ==
    /\ Idle
    /\ scenario # None
    /\ \E i \in DOMAIN scenario.steps, actions \in ActionListInputs :
         LET step == heap[scenario.steps[i]]
         IN  result' = [op |-> "_assess_decision_making", actions |-> actions,
                        value |-> _assess_decision_making(actions, step)]
    /\ UNCHANGED <<heap, procedure_templates, scenario, db>>

\* score is the local variable when the loop has ended, value what is returned
ScoreTechnicalSkill ==
    /\ Idle
    /\ \E skill \in SkillInputs, actions \in ActionListInputs,
          time_taken \in TimeTakenInputs :
         result' = [op |-> "_score_technical_skill", skill |-> skill,
                    actions |-> actions, time_taken |-> time_taken,
                    score |-> SkillScoreAfter(skill, actions, time_taken, Len(actions)),
                    value |-> _score_technical_skill(skill, actions, time_taken)]
    /\ UNCHANGED <<heap, procedure_templates, scenario, db>>

\* the steps of a history
MaxHistory == 3

\* overall scores 5 and 6 points apart, and far apart
OverallScoreInputs == {Whole(40), Whole(45), Whole(46), Whole(90)}

AnalyzePerformanceTrends ==
    /\ Idle
    /\ \E n \in 1..MaxHistory :
         \E scores \in [1..n -> OverallScoreInputs] :
            \E trends \in _analyze_performance_trends(
                              [i \in 1..n |-> [overall_score |-> scores[i]]]) :
               result' = [op |-> "_analyze_performance_trends", scores |-> scores,
                          value |-> trends]
    /\ UNCHANGED <<heap, procedure_templates, scenario, db>>

\* overall scores at and next to the thresholds of the levels and of the
\* recommendations, and one that assess_step returns
FeedbackScoreInputs ==
    {Whole(59), Whole(60), Whole(69), Whole(70), Whole(74), Whole(75), Whole(84),
     Whole(85), Whole(89), Whole(90), Frac(16049, 100)}

GenerateStepFeedback ==
    /\ Idle
    /\ scenario # None
    /\ \E i \in DOMAIN scenario.steps, overall_score \in FeedbackScoreInputs :
         \E feedback \in _generate_step_feedback(overall_score, overall_score,
                                                 overall_score, heap[scenario.steps[i]], <<>>) :
            result' = [op |-> "_generate_step_feedback", overall_score |-> overall_score,
                       value |-> feedback]
    /\ UNCHANGED <<heap, procedure_templates, scenario, db>>

NextScoring ==
    \/ GenerateTimedScenario
    \/ AssessTimeManagement
    \/ AssessDecisionMaking
    \/ ScoreTechnicalSkill
    \/ AnalyzePerformanceTrends
    \/ GenerateStepFeedback
    \/ Return
    \/ Discard

SpecScoring == Init /\ [][NextScoring]_vars


-----------------------------------------------------------------------------
(* The caller of the storage and of the final assessment *)

SimulationIds == {"sim-A", "sim-B"}

\* the rows of step_assessments, complications and performance_metrics together
MaxRows == 2

RowCount == Len(db.step_assessments) + Len(db.complications) + Len(db.performance_metrics)

StoredProcedures == {"laparoscopic_cholecystectomy", "appendectomy"}

\* the scenario that the submissions below are assessed on
ReferenceScenario ==
    LET out == CHOOSE o \in generate_scenario(TemplateStepObjects, _load_procedure_templates,
                                "laparoscopic_cholecystectomy", "intermediate", <<>>, FALSE, 9) :
                   o.raised = "none"
    IN  [heap |-> out.heap, simulation_data |-> [simulation |-> out.value]]

\* step_number, actions, time_taken of the steps a trainee submits: an early
\* step with a wrong decision, far too late; a later step with a poor
\* dissection action, late
SubmissionInputs ==
    {[step_number |-> 1, time_taken |-> 300000,
      user_actions |-> << "type" :> "decision" @@ "outcome" :> "incorrect" >>],
     [step_number |-> 5, time_taken |-> 1980,
      user_actions |-> << "type" :> "skill" @@ "skill_category" :> "tissue_handling"
                              @@ "accuracy" :> 50 @@ "expected_time" :> 1200
                              @@ "hesitation_time" :> 45,
                          "type" :> "monitors_vitals" >>]}

\* what assess_step returns for them, with the first summary of the level
StepAssessmentInputs ==
    {[step_number |-> s.step_number, user_actions |-> s.user_actions,
      assessment |->
          (CHOOSE o \in assess_step(ReferenceScenario.heap, ReferenceScenario.simulation_data,
                                    s.step_number, s.user_actions, s.time_taken) :
               o.value.feedback.summary = feedback_templates[o.value.feedback.overall_level][1]).value] :
     s \in SubmissionInputs}

\* a complication as _generate_complications makes it, one that
\* generate_dynamic_complication returns, and an empty dictionary
ComplicationInputs ==
    {[type |-> "bleeding", severity |-> "moderate", location |-> "liver bed",
      trigger_step |-> 3, management_options |-> complication_library["bleeding"].management],
     complication_scenarios["unexpected_bleeding"], NoSimulation}

\* generate_scenario and save_simulation, as generate_simulation calls them
SaveSimulation ==
    /\ Idle
    /\ \E simulation_id \in SimulationIds, procedure_type \in StoredProcedures,
          patient \in PatientInputs :
         \E made \in generate_scenario(heap, procedure_templates, procedure_type,
                                       "intermediate", <<>>, FALSE, 9) :
            LET out == save_simulation(db, made.heap, simulation_id, made.value, patient)
            IN  /\ db' = out.db
                /\ result' = [op |-> "save_simulation", simulation_id |-> simulation_id,
                              simulation_data |-> Snapshot(made.heap, made.value),
                              patient_data |-> patient, value |-> out.value]
    /\ UNCHANGED <<heap, procedure_templates, scenario>>

GetSimulation ==
    /\ Idle
    /\ \E simulation_id \in SimulationIds :
         \E merged_data \in get_simulation(db, simulation_id) :
            result' = [op |-> "get_simulation", simulation_id |-> simulation_id,
                       value |-> merged_data]
    /\ UNCHANGED <<heap, procedure_templates, scenario, db>>

UpdateSimulationProgress ==
    /\ Idle
    /\ RowCount < MaxRows
    /\ \E simulation_id \in SimulationIds, s \in StepAssessmentInputs :
         LET out == update_simulation_progress(db, simulation_id, s.step_number,
                                               s.assessment, s.user_actions)
         IN  /\ db' = out.db
             /\ result' = [op |-> "update_simulation_progress",
                           simulation_id |-> simulation_id,
                           step_number |-> s.step_number, value |-> out.value]
    /\ UNCHANGED <<heap, procedure_templates, scenario>>

\* process_simulation_step of the application: the state that get_simulation
\* returns goes to assess_step and to get_next_step as it is; the steps that
\* json.loads has built are objects of their own, numbered by their position
ProcessSimulationStep ==
    /\ Idle
    /\ RowCount < MaxRows
    /\ \E simulation_id \in SimulationIds, s \in SubmissionInputs :
         \E merged_data \in get_simulation(db, simulation_id) :
            LET loaded == IF Has(merged_data, "simulation")
                          THEN merged_data.simulation.steps ELSE <<>>
                simulation_data ==
                    IF Has(merged_data, "simulation")
                    THEN [merged_data EXCEPT !.simulation.steps = [i \in DOMAIN @ |-> i]]
                    ELSE merged_data
                failed(raised) ==
                    /\ db' = db
                    /\ result' = [op |-> "process_simulation_step",
                                  simulation_id |-> simulation_id,
                                  step_number |-> s.step_number,
                                  raised |-> raised, value |-> None]
            IN  \E assessed \in assess_step(loaded, simulation_data, s.step_number,
                                             s.user_actions, s.time_taken) :
                   IF assessed.raised # "none" THEN failed(assessed.raised)
                   ELSE LET next_step == get_next_step(loaded, simulation_data,
                                                       s.step_number, assessed.value)
                            out == update_simulation_progress(db, simulation_id,
                                       s.step_number, assessed.value, s.user_actions)
                        IN  IF next_step.raised # "none" THEN failed(next_step.raised)
                            ELSE /\ db' = out.db
                                 /\ result' = [op |-> "process_simulation_step",
                                               simulation_id |-> simulation_id,
                                               step_number |-> s.step_number,
                                               raised |-> "none",
                                               value |-> [assessment |-> assessed.value]]
    /\ UNCHANGED <<heap, procedure_templates, scenario>>

AddComplication ==
    /\ Idle
    /\ RowCount < MaxRows
    /\ \E simulation_id \in SimulationIds, complication \in ComplicationInputs :
         LET out == add_complication(db, simulation_id, complication)
         IN  /\ db' = out.db
             /\ result' = [op |-> "add_complication", simulation_id |-> simulation_id,
                           value |-> out.value]
    /\ UNCHANGED <<heap, procedure_templates, scenario>>

\* generate_complication of the application; its current_step is not read
GenerateComplication ==
    /\ Idle
    /\ RowCount < MaxRows
    /\ \E simulation_id \in SimulationIds, selected \in DynamicComplicationNames :
         \E simulation_data \in get_simulation(db, simulation_id) :
            LET complication == generate_dynamic_complication(simulation_data, 2, selected)
                out == add_complication(db, simulation_id, complication.value)
            IN  IF complication.raised # "none"
                THEN /\ db' = db
                     /\ result' = [op |-> "generate_complication",
                                   simulation_id |-> simulation_id,
                                   raised |-> complication.raised, value |-> None]
                ELSE /\ db' = out.db
                     /\ result' = [op |-> "generate_complication",
                                   simulation_id |-> simulation_id,
                                   raised |-> "none", value |-> complication.value]
    /\ UNCHANGED <<heap, procedure_templates, scenario>>

\* the state handed to generate_final_assessment: what get_simulation returns,
\* as complete_simulation of the application passes it, or that state under
\* the key 'simulation' next to its history, as the engine reads it
FinalAssessmentStates(simulation_id) ==
    get_simulation(db, simulation_id)
    \cup {[simulation |-> merged_data, simulation_id |-> simulation_id,
           step_assessments |-> merged_data.step_assessments] :
          merged_data \in get_simulation(db, simulation_id) \ {NoSimulation}}

GenerateFinalAssessment ==
    /\ Idle
    /\ \E simulation_id \in SimulationIds :
         \E simulation_data \in FinalAssessmentStates(simulation_id) :
            \E out \in generate_final_assessment(simulation_data) :
               result' = [op |-> "generate_final_assessment",
                          simulation_id |-> simulation_id,
                          simulation_data |-> simulation_data,
                          raised |-> out.raised, value |-> out.value]
    /\ UNCHANGED <<heap, procedure_templates, scenario, db>>

\* complete_simulation with the final assessment of the simulation's history
CompleteSimulation ==
    /\ Idle
    /\ RowCount < MaxRows
    /\ \E simulation_id \in SimulationIds :
         \E simulation_data \in FinalAssessmentStates(simulation_id) :
            \E final \in generate_final_assessment(simulation_data) :
               /\ final.raised = "none"
               /\ LET out == complete_simulation(db, simulation_id, final.value)
                  IN  /\ db' = out.db
                      /\ result' = [op |-> "complete_simulation",
                                    simulation_id |-> simulation_id, value |-> out.value]
    /\ UNCHANGED <<heap, procedure_templates, scenario>>

CollectGarbage ==
    /\ db.locked
    /\ db' = CloseLeakedConnection(db)
    /\ UNCHANGED <<heap, procedure_templates, scenario, result>>

NextDatabase ==
    \/ SaveSimulation
    \/ GetSimulation
    \/ UpdateSimulationProgress
    \/ ProcessSimulationStep
    \/ AddComplication
    \/ GenerateComplication
    \/ GenerateFinalAssessment
    \/ CompleteSimulation
    \/ CollectGarbage
    \/ Return

SpecDatabase == Init /\ [][NextDatabase]_vars

-----------------------------------------------------------------------------
(* Properties of the scenario generator, checked under SpecGenerator *)

Generated == result.op = "generate_scenario"

Returned == result.raised = "none"

StepOf(i) == heap[scenario.steps[i]]

DifficultyFields == {"hints", "decision_points", "variations", "time_pressure"}

\* C3: a scenario that generate_scenario returns has exactly as many steps as
\* its procedure's template, each a dictionary of its own, and the caller's
\* scenario keeps that number of steps whatever get_next_step calls follow.
C3_StepCountFixed ==
    /\ (Generated /\ Returned) =>
           Len(scenario.steps) = Len(_load_procedure_templates[result.procedure_type].steps)
    /\ scenario # None =>
           /\ \E p \in DOMAIN _load_procedure_templates :
                 /\ _load_procedure_templates[p].name = scenario.procedure_info.name
                 /\ Len(scenario.steps) = Len(_load_procedure_templates[p].steps)
           /\ Cardinality(Range(scenario.steps)) = Len(scenario.steps)
           /\ \A i \in DOMAIN scenario.steps : StepOf(i).step_number = i

\* a five-step scenario on which get_next_step has attached a complication
C3_Witness ==
    /\ result.op = "get_next_step"
    /\ Returned
    /\ Len(scenario.steps) = 5
    /\ \E i \in DOMAIN scenario.steps : Has(StepOf(i), "complication")

DurationBounds(duration_str) ==
    LET parts == Split(RemoveAll(duration_str, MinutesSuffix), "-")
    IN  <<int(parts[1]), int(parts[2])>>

\* the multipliers of the four difficulties, in tenths
MultiplierOf == "beginner" :> 15 @@ "intermediate" :> 10 @@ "advanced" :> 8 @@ "expert" :> 7

ExpectedDuration(duration_str, m) ==
    LET ab == DurationBounds(duration_str)
    IN  str((ab[1] * m) \div 10) \o <<"-">> \o str((ab[2] * m) \div 10) \o MinutesSuffix

\* C4: for a built-in procedure and each of the four difficulties,
\* generate_scenario returns a scenario in which the step made from a template
\* step "a-b minutes" has duration "floor(a*m)-floor(b*m) minutes", m being
\* 1.5, 1.0, 0.8, 0.7 for beginner, intermediate, advanced, expert.
C4_DurationScaled ==
    (/\ Generated
     /\ result.procedure_type \in DOMAIN _load_procedure_templates
     /\ result.difficulty_level \in KnownDifficulties
     /\ ~result.complications_enabled)
    => /\ Returned
       /\ \A i \in DOMAIN scenario.steps :
             StepOf(i).duration =
                 ExpectedDuration(
                     TemplateStepObjects[_load_procedure_templates[result.procedure_type].steps[i]].duration,
                     MultiplierOf[result.difficulty_level])

GuidanceOf ==
    "beginner" :> "detailed" @@ "intermediate" :> "moderate"
    @@ "advanced" :> "minimal" @@ "expert" :> "none"

ExtraFieldOf ==
    "beginner" :> "hints" @@ "intermediate" :> "decision_points"
    @@ "advanced" :> "variations" @@ "expert" :> "time_pressure"

\* C5: generate_scenario for laparoscopic_cholecystectomy at beginner with
\* complications disabled returns a scenario of exactly 6 steps with no
\* complication and guidance_level "detailed" on every step; and every step of
\* a scenario generated at one of the four difficulties carries that
\* difficulty's guidance level and, of the four extra fields, exactly its own.
C5_GuidanceByDifficulty ==
    /\ (/\ Generated
        /\ result.procedure_type = "laparoscopic_cholecystectomy"
        /\ result.difficulty_level = "beginner"
        /\ ~result.complications_enabled)
       => /\ Returned
          /\ Len(scenario.steps) = 6
          /\ scenario.complications = <<>>
          /\ \A i \in DOMAIN scenario.steps : StepOf(i).guidance_level = "detailed"
    /\ (scenario # None /\ scenario.difficulty_level \in KnownDifficulties)
       => \A i \in DOMAIN scenario.steps :
             /\ Has(StepOf(i), "guidance_level")
             /\ StepOf(i).guidance_level = GuidanceOf[scenario.difficulty_level]
             /\ DOMAIN StepOf(i) \cap DifficultyFields = {ExtraFieldOf[scenario.difficulty_level]}

\* the beginner cholecystectomy scenario without complications, just returned
C5_Witness ==
    /\ Generated
    /\ Returned
    /\ result.procedure_type = "laparoscopic_cholecystectomy"
    /\ result.difficulty_level = "beginner"
    /\ ~result.complications_enabled
    /\ Len(scenario.steps) = 6

AllowedComplications(name) ==
    IF name = "Laparoscopic Cholecystectomy"
    THEN {"bleeding", "bowel_injury", "equipment_failure"}
    ELSE {"bleeding", "equipment_failure"}

\* C6: every scenario generate_scenario returns has at most one complication,
\* none when complications_enabled is false, and a complication in it has a
\* trigger_step in 2..5 that is not beyond the step count and a type of the
\* procedure's allowed set.
C6_ComplicationBounds ==
    /\ (Generated /\ Returned /\ ~result.complications_enabled)
       => scenario.complications = <<>>
    /\ scenario # None =>
          /\ Len(scenario.complications) <= 1
          /\ \A k \in DOMAIN scenario.complications :
                LET comp == scenario.complications[k]
                IN  /\ comp.trigger_step \in 2..5
                    /\ comp.trigger_step <= Len(scenario.steps)
                    /\ comp.type \in AllowedComplications(scenario.procedure_info.name)

\* a five-step scenario whose complication triggers at its last step
C6_Witness ==
    /\ Generated
    /\ Returned
    /\ result.complications_enabled
    /\ Len(scenario.steps) = 5
    /\ Len(scenario.complications) = 1
    /\ scenario.complications[1].trigger_step = 5

\* C7: generate_scenario raises ValueError and gives the caller no scenario
\* whenever procedure_type is not a key of the catalog, whatever the
\* difficulty and the other arguments.
C7_UnknownProcedureRejected ==
    (Generated /\ result.procedure_type \notin DOMAIN _load_procedure_templates)
    => (result.raised = "ValueError" /\ scenario = None)

\* an unknown procedure requested at expert difficulty with complications on
C7_Witness ==
    /\ Generated
    /\ result.procedure_type = "invalid_procedure"
    /\ result.difficulty_level = "expert"
    /\ result.complications_enabled
    /\ result.raised = "ValueError"

\* C8: generate_scenario with a difficulty outside the four tiers raises
\* nothing and returns a scenario whose steps keep the template's durations
\* and carry no guidance_level, hints, decision_points, variations or
\* time_pressure.
C8_UnknownDifficultyPassesThrough ==
    (/\ Generated
     /\ result.procedure_type \in DOMAIN _load_procedure_templates
     /\ result.difficulty_level \notin KnownDifficulties)
    => /\ Returned
       /\ \A i \in DOMAIN scenario.steps :
             /\ StepOf(i).duration =
                  TemplateStepObjects[_load_procedure_templates[result.procedure_type].steps[i]].duration
             /\ DOMAIN StepOf(i) \cap (DifficultyFields \cup {"guidance_level"}) = {}

\* C9: generate_scenario raises ValueError for a difficulty level it does not
\* support, and the test counts "expert" for laparoscopic_cholecystectomy as
\* one.
C9_UnsupportedDifficultyRejected ==
    (/\ Generated
     /\ result.procedure_type \in DOMAIN _load_procedure_templates
     /\ \/ result.difficulty_level \notin KnownDifficulties
        \/ /\ result.procedure_type = "laparoscopic_cholecystectomy"
           /\ result.difficulty_level = "expert")
    => result.raised = "ValueError"

\* C10: the procedure catalog, with every template's step dictionaries, keeps
\* its initial value through every call of the generator.
C10_CatalogUnchanged ==
    /\ procedure_templates = _load_procedure_templates
    /\ TemplateRefs \subseteq DOMAIN heap
    /\ [r \in TemplateRefs |-> heap[r]] = TemplateStepObjects

\* get_next_step has just attached a complication to the step it returned
C10_Witness ==
    /\ result.op = "get_next_step"
    /\ Returned
    /\ Has(result.value, "ref")
    /\ Has(heap[result.value.ref], "complication")
    /\ result.value.ref \notin TemplateRefs

CompletionMarker == [completed |-> TRUE, message |-> "Simulation completed successfully"]

ComplicationReturned ==
    result.op = "generate_dynamic_complication" /\ result.raised = "none"

\* C17: whichever of its names random.choice draws, the complication that
\* generate_dynamic_complication returns is not empty and has a type, a
\* description, a severity, a list of immediate actions and a time limit.
C17_DynamicComplicationComplete ==
    ComplicationReturned =>
        /\ result.value # EmptyDict
        /\ {"type", "description", "severity", "immediate_actions", "time_limit"}
               \subseteq DOMAIN result.value


NextStepReturned ==
    /\ result.op = "get_next_step"
    /\ Returned
    /\ 0 <= result.current_step
    /\ result.current_step < Len(scenario.steps)

StepsCarrying(comp) ==
    {j \in DOMAIN scenario.steps :
        Has(StepOf(j), "complication") /\ StepOf(j).complication = comp}

C26_GenerateScenarioTotal ==
    (/\ Generated
     /\ result.procedure_type \in DOMAIN _load_procedure_templates
     /\ result.difficulty_level \in KnownDifficulties)
    => (Returned /\ scenario # None)

-----------------------------------------------------------------------------
(* Properties of the assessment engine, checked under SpecAssessment *)

Assessed == result.op = "assess_step"

InPercentRange(score) == FLeq(Whole(0), score) /\ FLeq(score, Whole(100))

StepCount == Len(scenario.steps)

\* C1: for a step_number of the scenario, actions whose quality fields are
\* within 0..1 and a time_taken that is not negative, assess_step returns an
\* assessment whose technical_score and overall_score are both within 0..100.
C1_ScoresWithinPercentRange ==
    (Assessed /\ result.step_number \in 1..StepCount) =>
        /\ Returned
        /\ InPercentRange(result.value.technical_score)
        /\ InPercentRange(result.value.overall_score)

\* C2: assess_step with a step_number below 1 or above the number of steps of
\* the scenario fails and returns no assessment, so it never scores a step
\* other than the one asked for.
C2_StepOutOfRangeFails ==
    (Assessed /\ (result.step_number < 1 \/ result.step_number > StepCount)) =>
        ~Returned

\* the step that assess_step has scored
ScoredStep == heap[PyIndex(scenario.steps, result.step_number - 1)]

\* C22: the non_technical_score of an assessment is 0.30 x the communication
\* score + 0.35 x the decision-making score + 0.20 x the time-management score
\* + 0.15 x the situational-awareness score of the submission, and lies
\* within 0..100.
C22_NonTechnicalWeighting ==
    (Assessed /\ Returned) =>
        /\ FMul(result.value.non_technical_score, Whole(100))
             = FAdd(FAdd(FMul(Whole(30), _assess_communication(result.user_actions)),
                         FMul(Whole(35),
                              _assess_decision_making(result.user_actions, ScoredStep))),
                    FAdd(FMul(Whole(20),
                              _assess_time_management(result.time_taken, ScoredStep)),
                         FMul(Whole(15),
                              _assess_situational_awareness(result.user_actions))))
        /\ InPercentRange(result.value.non_technical_score)

\* a wrong decision submitted far too late: 0.30 x 50 + 0.35 x 0 + 0.20 x 30
\* + 0.15 x 70 = 31.5
C22_Witness ==
    /\ Assessed
    /\ Returned
    /\ result.time_taken = 300000
    /\ result.user_actions = << "type" :> "decision" @@ "outcome" :> "incorrect" >>
    /\ result.value.non_technical_score = Frac(63, 2)

\* the final assessments of a history that holds the returned assessment alone
FinalAssessmentsOfResult ==
    generate_final_assessment([simulation |-> scenario,
                               step_assessments |-> <<result.value>>])

\* C28: on a scenario of appendectomy or knee arthroscopy every assessment
\* that assess_step returns has technical_score 0 and an overall_score of at
\* most 30, and a final assessment over it is not certification_eligible.
C28_NoTechnicalScoreOutsideCholecystectomy ==
    (/\ Assessed
     /\ Returned
     /\ scenario.procedure_info.name # "Laparoscopic Cholecystectomy")
    => /\ result.value.technical_score = Whole(0)
       /\ FLeq(result.value.overall_score, Whole(30))
       /\ \A final \in FinalAssessmentsOfResult :
             final.raised = "none" /\ ~final.value.certification_eligible

\* a knee arthroscopy step with a good skill action, assessed at 0
C28_Witness ==
    /\ Assessed
    /\ Returned
    /\ scenario.procedure_info.name = "Knee Arthroscopy"
    /\ \E i \in DOMAIN result.user_actions :
          Get(result.user_actions[i], "accuracy", 0) > 80
    /\ result.value.technical_score = Whole(0)
-----------------------------------------------------------------------------
(* Claims about the sub-scores *)

TimeAssessed == result.op = "_assess_time_management"

\* the step's nominal range in seconds
NominalRange(step) ==
    LET ab == DurationBounds(Get(step, "duration", Chars["10-15 minutes"]))
    IN  <<ab[1] * 60, ab[2] * 60>>

\* time_taken t is on the same side of the range as s, and further from it
FurtherOutside(t, s, range) ==
    \/ t < s /\ s < range[1]
    \/ t > s /\ s > range[2]

\* C13: the time-management score is 100 for a time_taken within the step's
\* range in seconds, at least 70 and less than 100 below the range, at least
\* 30 and less than 100 above it, and a time_taken further outside the range
\* never scores more.
C13_TimeManagementScore ==
    TimeAssessed =>
        LET range == NominalRange(result.step)
            t     == result.time_taken
        IN  /\ (range[1] <= t /\ t <= range[2]) => result.value = Whole(100)
            /\ t < range[1] =>
                  (FLeq(Whole(70), result.value) /\ FLess(result.value, Whole(100)))
            /\ t > range[2] =>
                  (FLeq(Whole(30), result.value) /\ FLess(result.value, Whole(100)))
            /\ \A further \in TimeManagementInputs :
                  FurtherOutside(further, t, range)
                      => FLeq(_assess_time_management(further, result.step), result.value)

\* a step timed so late that the floor of 30 is what it scores
C13_Witness ==
    /\ TimeAssessed
    /\ result.time_taken > NominalRange(result.step)[2]
    /\ result.value = Whole(30)

DecisionAssessed == result.op = "_assess_decision_making"

NumberWithOutcome(actions, outcome) ==
    Cardinality({i \in DOMAIN actions :
                    /\ Get(actions[i], "type", "") = "decision"
                    /\ Get(actions[i], "outcome", "") = outcome})

NumberOfDecisions(actions) ==
    Cardinality({i \in DOMAIN actions : Get(actions[i], "type", "") = "decision"})

\* C14: the decision-making score is 70 when no action is a decision;
\* otherwise it is (correct ones + 0.7 x safe alternatives) / decisions x 100,
\* a value within 0..100 that the other actions of the list do not enter.
C14_DecisionScore ==
    DecisionAssessed =>
        LET n == NumberOfDecisions(result.actions)
        IN  IF n = 0 THEN result.value = Whole(70)
            ELSE /\ result.value =
                        Frac((10 * NumberWithOutcome(result.actions, "correct")
                              + 7 * NumberWithOutcome(result.actions, "safe_alternative")) * 100,
                             10 * n)
                 /\ InPercentRange(result.value)

\* a safe alternative next to an action that is no decision: 70
C14_Witness ==
    /\ DecisionAssessed
    /\ NumberOfDecisions(result.actions) = 1
    /\ NumberWithOutcome(result.actions, "safe_alternative") = 1
    /\ Len(result.actions) = 2
    /\ result.value = Whole(70)

SkillScored == result.op = "_score_technical_skill"

Matching(skill, actions) ==
    {i \in DOMAIN actions : In(skill, lower[Get(actions[i], "skill_category", "")])}

\* time_taken is more than 1.5 x the expected time of every matching action
LateForAll(skill, actions, time_taken) ==
    \A i \in Matching(skill, actions) :
        2 * time_taken > 3 * Get(actions[i], "expected_time", 300)

\* C15: when one or several actions match the skill and time_taken is more
\* than 1.5 x their expected time, the score accumulated before the clamp is
\* 0.8 x the score the same actions accumulate when submitted on time.
C15_LatePenaltyScalesOnce ==
    (/\ SkillScored
     /\ Matching(result.skill, result.actions) # {}
     /\ LateForAll(result.skill, result.actions, result.time_taken))
        => result.score
             = FMul(Hundredths(80),
                    SkillScoreAfter(result.skill, result.actions, 0, Len(result.actions)))

TrendsAnalyzed == result.op = "_analyze_performance_trends"

MeanOf(scores, from, to) == Average(SubSeq(scores, from, to))

FirstPositionOf(scores, score) ==
    CHOOSE i \in DOMAIN scores : scores[i] = score /\ \A j \in 1..(i - 1) : scores[j] # score

\* C24: for the overall scores s_1..s_n of a history the direction is
\* insufficient_data when n < 2; otherwise, the first floor(n/2) scores being
\* the first half and the others the second, improving when the mean of the
\* second half is more than 5 above the mean of the first, declining when it
\* is more than 5 below, stable otherwise.  The peak and the lowest step are
\* the first positions, counted from 1, of the greatest and the least score.
C24_TrendDirection ==
    TrendsAnalyzed =>
        LET scores == result.scores
            n      == Len(scores)
            first  == MeanOf(scores, 1, n \div 2)
            second == MeanOf(scores, n \div 2 + 1, n)
            top    == CHOOSE s \in Range(scores) : \A t \in Range(scores) : FLeq(t, s)
            bottom == CHOOSE s \in Range(scores) : \A t \in Range(scores) : FLeq(s, t)
        IN  /\ result.value.direction =
                  (IF n < 2 THEN "insufficient_data"
                   ELSE IF FLess(FAdd(first, Whole(5)), second) THEN "improving"
                   ELSE IF FLess(second, FSub(first, Whole(5))) THEN "declining"
                   ELSE "stable")
            /\ result.value.peak_performance_step = FirstPositionOf(scores, top)
            /\ result.value.lowest_performance_step = FirstPositionOf(scores, bottom)

\* 40, 40, 46: the second half (40, 46) averages 43, which is 3 above the
\* first half (40)
C24_Witness ==
    /\ TrendsAnalyzed
    /\ result.scores = <<Whole(40), Whole(40), Whole(46)>>
    /\ result.value.direction = "stable"
    /\ result.value.peak_performance_step = 3
    /\ result.value.lowest_performance_step = 1

FeedbackGenerated == result.op = "_generate_step_feedback"

\* C25: the feedback of a step has overall_level excellent for an
\* overall_score of 90 or more, good from 75, needs_improvement from 60, poor
\* below; its summary is one of the templates of that level; it has 5
\* recommendations for a score below 70, 2 from 70 to below 85, none from 85.
C25_FeedbackByScore ==
    FeedbackGenerated =>
        LET score == result.overall_score
            level == result.value.overall_level
        IN  /\ level = "excellent" <=> FLeq(Whole(90), score)
            /\ level = "good" <=> (FLeq(Whole(75), score) /\ FLess(score, Whole(90)))
            /\ level = "needs_improvement"
                   <=> (FLeq(Whole(60), score) /\ FLess(score, Whole(75)))
            /\ level = "poor" <=> FLess(score, Whole(60))
            /\ result.value.summary \in Range(feedback_templates[level])
            /\ Len(result.value.recommendations)
                   = (IF FLess(score, Whole(70)) THEN 5
                      ELSE IF FLess(score, Whole(85)) THEN 2 ELSE 0)

\* a score of exactly 75: good, with the two general recommendations
C25_Witness ==
    /\ FeedbackGenerated
    /\ result.overall_score = Whole(75)
    /\ result.value.overall_level = "good"
    /\ Len(result.value.recommendations) = 2

-----------------------------------------------------------------------------
(* Claims about the final assessment and the storage *)

FinalAssessed == result.op = "generate_final_assessment"

HistoryOf(simulation_data) == Get(simulation_data, "step_assessments", <<>>)

EmptyResultMarker == [error |-> "No step assessments found"]

\* C12: generate_final_assessment called on a simulation state whose
\* assessment history is empty or absent does not raise and returns the
\* empty-result marker.
C12_EmptyHistoryGivesMarker ==
    (FinalAssessed /\ HistoryOf(result.simulation_data) = <<>>)
        => (result.raised = "none" /\ result.value = EmptyResultMarker)

\* a stored simulation without assessed steps
C12_Witness ==
    /\ FinalAssessed
    /\ Has(result.simulation_data, "step_assessments")
    /\ result.simulation_data.step_assessments = <<>>
    /\ result.value = EmptyResultMarker

FinalAssessmentReturned ==
    FinalAssessed /\ result.raised = "none" /\ Has(result.value, "scores")

\* C16: in a final assessment, certification_eligible is true exactly when
\* the overall_average it reports is at least 75, and next_difficulty_ready
\* exactly when the overall_average it reports is at least 85.
C16_GatesFollowReportedAverage ==
    FinalAssessmentReturned =>
        /\ result.value.certification_eligible
               <=> FLeq(Whole(75), result.value.scores.overall_average)
        /\ result.value.next_difficulty_ready
               <=> FLeq(Whole(85), result.value.scores.overall_average)

Retrieved == result.op = "get_simulation"

\* the row that save_simulation wrote for the id, when nothing has been
\* recorded for the id and it has not been completed
FreshlySaved(simulation_id) ==
    /\ SimulationRows(db, simulation_id) # <<>>
    /\ SimulationRows(db, simulation_id)[1].status = "active"
    /\ RowsOf(db.step_assessments, simulation_id) = <<>>

\* C18: get_simulation of an id that save_simulation has stored returns a
\* state whose entry 'simulation' is the saved scenario, whose patient is the
\* saved patient, whose status is active and whose history is empty.
C18_RoundTrip ==
    (Retrieved /\ FreshlySaved(result.simulation_id)) =>
        LET row == SimulationRows(db, result.simulation_id)[1]
        IN  /\ Has(result.value, "simulation")
            /\ result.value.simulation = json_loads(row.simulation_data)
            /\ result.value.patient = json_loads(row.patient_data)
            /\ result.value.status = "active"
            /\ result.value.step_assessments = <<>>

\* C19: the history that get_simulation returns is strictly increasing in
\* step_number, whatever was recorded and in whatever order: no step number
\* occurs twice in it.
C19_HistoryStrictlyIncreasing ==
    (Retrieved /\ result.value # NoSimulation) =>
        LET history == result.value.step_assessments
        IN  \A i, j \in DOMAIN history :
                i < j => history[i].step_number < history[j].step_number

AddressedOperations ==
    {"save_simulation", "update_simulation_progress", "add_complication",
     "complete_simulation"}

\* C20: a save, a recorded step, an added complication or a completion
\* addressed to one simulation id leaves what get_simulation returns for
\* every other id as it was.
C20_SimulationsIndependent ==
    [][\A other \in SimulationIds :
          (/\ result'.op \in AddressedOperations
           /\ result' # result
           /\ result'.simulation_id # other)
              => get_simulation(db', other) = get_simulation(db, other)]_vars

\* sim-A has been completed while sim-B, saved as well, is still active
C20_Witness ==
    /\ result.op = "complete_simulation"
    /\ result.simulation_id = "sim-A"
    /\ result.value = TRUE
    /\ \E merged_data \in get_simulation(db, "sim-A") :
          merged_data # NoSimulation /\ merged_data.status = "completed"
    /\ \E merged_data \in get_simulation(db, "sim-B") :
          merged_data # NoSimulation /\ merged_data.status = "active"

Stored(d, simulation_id) == SimulationRows(d, simulation_id) # <<>>

NothingRecorded(d, simulation_id) == RowsOf(d.step_assessments, simulation_id) = <<>>

\* C21: completing a stored simulation for which no step has been recorded
\* leaves its status active, records no metric, and leaves what is stored of
\* its scenario and its history as it was.
C21_EmptyCompletionChangesNothing ==
    [][(/\ result'.op = "complete_simulation"
        /\ result' # result
        /\ Stored(db, result'.simulation_id)
        /\ NothingRecorded(db, result'.simulation_id))
           => /\ get_simulation(db', result'.simulation_id)
                    = get_simulation(db, result'.simulation_id)
              /\ \A merged_data \in get_simulation(db', result'.simulation_id) :
                    merged_data.status = "active"
              /\ db'.performance_metrics = db.performance_metrics
              /\ db'.simulations = db.simulations
              /\ db'.step_assessments = db.step_assessments]_vars

\* the completion of a stored simulation without recorded steps has failed,
\* and its connection is still open
C21_Witness ==
    /\ result.op = "complete_simulation"
    /\ result.value = FALSE
    /\ Stored(db, result.simulation_id)
    /\ NothingRecorded(db, result.simulation_id)
    /\ db.locked

StoredStepCount(d, simulation_id) ==
    Len(json_loads(SimulationRows(d, simulation_id)[1].simulation_data).steps)

\* C27: processing the submission of a step of a stored simulation, with a
\* step_number from 1 to the number of its steps, returns an assessment and
\* adds one entry to the history of that simulation.
C27_SubmissionRecordsOneStep ==
    [][(/\ result'.op = "process_simulation_step"
        /\ result' # result
        /\ Stored(db, result'.simulation_id)
        /\ result'.step_number \in 1..StoredStepCount(db, result'.simulation_id))
           => /\ result'.raised = "none"
              /\ Len(RowsOf(db'.step_assessments, result'.simulation_id))
                    = Len(RowsOf(db.step_assessments, result'.simulation_id)) + 1]_vars

\* C29: after a request to generate a complication for a stored simulation,
\* the complication that was generated is among the stored complications of
\* that simulation, whichever name the random choice has drawn.
C29_GeneratedComplicationRecorded ==
    (result.op = "generate_complication" /\ Stored(db, result.simulation_id)) =>
        /\ result.raised = "none"
        /\ \E i \in DOMAIN db.complications :
              /\ db.complications[i].simulation_id = result.simulation_id
              /\ db.complications[i].severity = Get(result.value, "severity", "")

StatusOf(d, simulation_id) == SimulationRows(d, simulation_id)[1].status

\* C30: a simulation is stored with status active; its status changes only
\* when a complete_simulation for it succeeds, and then to completed; a
\* stored simulation stays stored and a completed one stays completed.
C30_StatusLifecycle ==
    [][\A simulation_id \in SimulationIds :
          /\ (~Stored(db, simulation_id) /\ Stored(db', simulation_id))
                => /\ result'.op = "save_simulation"
                   /\ result'.value = TRUE
                   /\ StatusOf(db', simulation_id) = "active"
          /\ Stored(db, simulation_id)
                => /\ Stored(db', simulation_id)
                   /\ StatusOf(db, simulation_id) = "completed"
                         => StatusOf(db', simulation_id) = "completed"
                   /\ StatusOf(db', simulation_id) # StatusOf(db, simulation_id)
                         => /\ StatusOf(db', simulation_id) = "completed"
                            /\ result'.op = "complete_simulation"
                            /\ result'.simulation_id = simulation_id
                            /\ result'.value = TRUE]_vars

\* a completed simulation has been saved again: the save has failed and the
\* simulation is still completed
C30_Witness ==
    /\ result.op = "save_simulation"
    /\ result.value = FALSE
    /\ Stored(db, result.simulation_id)
    /\ StatusOf(db, result.simulation_id) = "completed"


====
